---- MODULE Spec2Model ----
(***************************************************************************)
(* Crawler and TF-IDF index of project_changes.                            *)
(*                                                                         *)
(* Strings that the code takes apart (URLs, hrefs) are sequences of        *)
(* lexical tokens: "http:" "//" "a" "/" "d1" "#" "f" ...  Concatenation is *)
(* \o, strings.HasPrefix is a prefix test on the token sequence.  Strings  *)
(* the code only compares (document names, words, stems) are TLA+ strings. *)
(***************************************************************************)
EXTENDS Integers, Sequences, FiniteSets, TLC

VARIABLES
    \* ---- Crawl (src/crawl.go) ----
    pc,          \* position of Crawl: "call", "loop", "done"
    start,       \* argument start
    max,         \* argument max
    site,        \* the web: URL string -> HTML body (forest of nodes)
    hostBase,    \* crawl.go:18
    visited,     \* crawl.go:20, the keys mapped to true
    queue,       \* crawl.go:21
    order,       \* crawl.go:22
    crawlErr,    \* the error Crawl returns ("nil" or "parse")
    downloaded,  \* history: arguments of the Download calls, in call order
    failed,      \* history: URLs whose Download returned an error
    enqLog,      \* history: every URL put on the queue, in order
    \* ---- InMemIndexer (src/unnamed/part_000:38-44) ----
    tf,          \* stem -> doc -> term freq
    df,          \* stem -> doc freq
    docLen,      \* doc -> token count (after stop+stem)
    N,           \* total documents
    \* ---- SQLiteIndexer, the tables of createTables (part_000:199-237) ----
    urls,        \* rows [id, name]
    words,       \* rows [id, word]
    hits,        \* rows [url_id, word_id, count]
    \* ---- the calls made on the two indexers, in lock step ----
    lastCall,    \* the last call: [op, url, words, term]
    memRet,      \* what InMemIndexer returned to it: [hits, err]
    sqlRet,      \* what SQLiteIndexer returned to it: [hits, err]
    added,       \* history: url -> the words of its first AddDocument
    addCount,    \* history: number of AddDocument calls so far
    repeated,    \* history: the last call repeats the call before it
    \* ---- BuildIndexFromURLList (src/unnamed/part_002:5-15) ----
    bpc,         \* position of BuildIndexFromURLList: "idle", "loop", "done"
    todo,        \* the URLs of the range loop not yet reached
    buildErr,    \* the error BuildIndexFromURLList returns
    addErrs,     \* history: URLs whose AddDocument returned an error
    blist,       \* argument urls of BuildIndexFromURLList
    fetchLog,    \* history: the Download calls of the run, [url, ok]
    addLog,      \* history: the URLs handed to AddDocument, in call order
    tx,          \* history: the tables as the transaction of the last
                 \* failing AddDocument saw them when its statement failed
    \* ---- two goroutines in InMemIndexer.AddDocument (part_000:65-99) ----
    rpc,         \* goroutine -> position in AddDocument
    rarg,        \* goroutine -> [url, words], the arguments of its call
    rloc,        \* goroutine -> the value of idx.N it read at line 97
    overlap,     \* history: a call began while the other was running
    crashed,     \* the runtime found a concurrent map write and exited
    \* ---- two goroutines in SQLiteIndexer.AddDocument (part_000:241-317) --
    conn,        \* the one connection of the pool: 0 free, else its holder
    spc,         \* goroutine -> position in AddDocument
    sarg,        \* goroutine -> [url, words, ord], ord the map range order
    swork,       \* goroutine -> the tables its transaction works on
    stmts,       \* history: the goroutine of every statement run, in order
    \* ---- one call of Download, Extract or CleanHref ----
    pfn,         \* the function called
    pin,         \* its arguments
    pout,        \* what it returned
    pdone,       \* it has returned
    \* ---- the Indexer implementations of project02 ----
    oldMem,      \* InMemIndex: [tf, df, docLen, N]
    oldV1,       \* SQLiteIndex: [urls, terms, hits, N]
    oldV2,       \* SQLiteIndexV2: [documents, vocabulary, term_frequencies, N]
    oldRet,      \* what the last SearchTFIDF returned on each: [mem, v1, v2]
    oldCall,     \* history: the last call
    oldCount,    \* history: number of Add calls so far
    oldFailed,   \* history: a storage statement failed in some Add
    \* ---- SQLiteIndexer.Search while AddDocument calls commit ----
    qpc,         \* position of Search: "idle", "count", "df", "rows", "done"
    qterm,       \* argument term
    qN,          \* totalDocs (part_000:333)
    qDf,         \* df (part_000:344)
    qRet,        \* the hits Search returned
    qAdds,       \* history: number of AddDocument calls committed
    \* ---- Run (src/server.go:105-151) ----
    rph,         \* position of Run: "start", "crawl", "build", "serving", "fatal"
    listening,   \* the server of Run listens on :8080
    ext,         \* another process serves :8080
    rlog         \* history: the GETs answered and refused, the AddDocument
                 \* calls and the /search requests served, in order

crawlVars == <<pc, start, max, site, hostBase, visited, queue, order,
               crawlErr, downloaded, failed, enqLog>>

indexVars == <<tf, df, docLen, N, urls, words, hits,
               lastCall, memRet, sqlRet, added, addCount, repeated>>

buildVars == <<bpc, todo, buildErr, addErrs, tx, blist, fetchLog, addLog>>

raceVars == <<rpc, rarg, rloc, overlap, crashed>>

connVars == <<conn, spc, sarg, swork, stmts>>

pageVars == <<pfn, pin, pout, pdone>>

oldVars == <<oldMem, oldV1, oldV2, oldRet, oldCall, oldCount, oldFailed>>

snapVars == <<qpc, qterm, qN, qDf, qRet, qAdds>>

runVars == <<rph, listening, ext, rlog>>

lateVars == <<oldVars, snapVars, runVars>>

restVars == <<raceVars, connVars, pageVars, lateVars>>

vars == <<crawlVars, indexVars, buildVars, restVars>>

\* ------------------------------------------------------------------------
\* Bounds
\* ------------------------------------------------------------------------
MaxPages == 4
MaxAdds == 3

\* ------------------------------------------------------------------------
\* Token strings
\* ------------------------------------------------------------------------
Range(s) == {s[i] : i \in DOMAIN s}

\* strings.HasPrefix(s, p)
HasPrefix(s, p) == Len(p) <= Len(s) /\ SubSeq(s, 1, Len(p)) = p

\* strings.HasSuffix(s, p)
HasSuffix(s, p) == Len(p) <= Len(s) /\ SubSeq(s, Len(s) - Len(p) + 1, Len(s)) = p

\* variant of LowerTok: the letters keep their case
LowerTokSame(t) == t

\* strings.ToLower on one token, then on a token string
LowerTok(t) ==
    CASE t = "JavaScript:" -> "javascript:"
      [] t = "DATA:"       -> "data:"
      [] t = "HTTP:"       -> "http:"
      [] OTHER             -> t

ToLowerStr(s) == [i \in DOMAIN s |-> LowerTok(s[i])]

RECURSIVE TrimLeft(_)
TrimLeft(s) == IF s # <<>> /\ Head(s) = " " THEN TrimLeft(Tail(s)) ELSE s

RECURSIVE TrimRight(_)
TrimRight(s) ==
    IF s # <<>> /\ s[Len(s)] = " " THEN TrimRight(SubSeq(s, 1, Len(s) - 1)) ELSE s

\* strings.TrimSpace
TrimSpace(s) == TrimRight(TrimLeft(s))

\* index of the first occurrence of token t in s, 0 when absent
IndexOf(s, t) ==
    IF t \in Range(s) THEN CHOOSE i \in DOMAIN s : s[i] = t /\ \A j \in 1..(i-1) : s[j] # t
    ELSE 0

\* strings.LastIndex(s, "/"), 0 when absent
LastSlash(s) ==
    IF "/" \in Range(s) THEN CHOOSE i \in DOMAIN s : s[i] = "/" /\ \A j \in (i+1)..Len(s) : s[j] # "/"
    ELSE 0

\* ------------------------------------------------------------------------
\* net/url as CleanHref and Crawl use it
\* ------------------------------------------------------------------------
SchemeToks == {"http:", "HTTP:", "https:", "javascript:", "JavaScript:", "data:", "DATA:"}

\* A parsed URL.  Fields are token strings; scheme keeps its colon.
MakeURL(scheme, host, path, frag) ==
    [err |-> FALSE, scheme |-> scheme, host |-> host, path |-> path, frag |-> frag]

ErrURL == [err |-> TRUE, scheme |-> <<>>, host |-> <<>>, path |-> <<>>, frag |-> <<>>]

\* strings.Cut at index h (0: separator absent)
CutAt(s, h) ==
    IF h = 0 THEN [pre |-> s, post |-> <<>>]
    ELSE [pre |-> SubSeq(s, 1, h - 1), post |-> SubSeq(s, h + 1, Len(s))]

\* url.getScheme: the scheme, lower-cased, and the rest
GetScheme(s) ==
    IF s # <<>> /\ Head(s) \in SchemeToks
    THEN [scheme |-> <<LowerTok(Head(s))>>, rest |-> Tail(s)]
    ELSE [scheme |-> <<>>, rest |-> s]

\* the authority ends at the first "/" (index sl, 0: no path)
SplitAuthority(aft, sl) ==
    IF sl = 0 THEN [host |-> aft, path |-> <<>>]
    ELSE [host |-> SubSeq(aft, 1, sl - 1), path |-> SubSeq(aft, sl, Len(aft))]

\* url.parse: "//" starts an authority, the rest is the path
ParseAuthority(rest) ==
    IF rest # <<>> /\ Head(rest) = "//"
    THEN SplitAuthority(Tail(rest), IndexOf(Tail(rest), "/"))
    ELSE [host |-> <<>>, path |-> rest]

ParseHier(scheme, au, frag) == MakeURL(scheme, au.host, au.path, frag)

ParseSchemed(sc, frag) == ParseHier(sc.scheme, ParseAuthority(sc.rest), frag)

\* url.Parse on the string cut at "#": a string whose first token is ":"
\* has no protocol scheme, which is the parse error
ParseCut(c) ==
    IF c.pre # <<>> /\ Head(c.pre) = ":" THEN ErrURL
    ELSE ParseSchemed(GetScheme(c.pre), c.post)

\* url.Parse
ParseURL(s) == ParseCut(CutAt(s, IndexOf(s, "#")))

\* url.resolvePath, last step: a non-empty result starts with "/".  The
\* hrefs of the model hold no "." or ".." segment.
RootedPath(full) ==
    IF full = <<>> THEN <<>>
    ELSE IF Head(full) = "/" THEN full ELSE <<"/">> \o full

\* url.resolvePath(base, ref)
ResolvePath(base, ref) ==
    RootedPath(IF ref = <<>> THEN base
               ELSE IF Head(ref) # "/" THEN SubSeq(base, 1, LastSlash(base)) \o ref
               ELSE ref)

\* (*URL).ResolveReference
ResolveReference(b, r) ==
    IF r.scheme # <<>>
    THEN MakeURL(r.scheme, r.host, ResolvePath(r.path, <<>>), r.frag)
    ELSE IF r.host # <<>>
    THEN MakeURL(b.scheme, r.host, ResolvePath(r.path, <<>>), r.frag)
    ELSE MakeURL(b.scheme, b.host, ResolvePath(b.path, r.path),
                 IF r.path = <<>> /\ r.frag = <<>> THEN b.frag ELSE r.frag)

\* (*URL).String
URLString(u) ==
    u.scheme
    \o (IF u.scheme # <<>> \/ u.host # <<>>
        THEN (IF u.host # <<>> \/ u.path # <<>> THEN <<"//">> ELSE <<>>) \o u.host
        ELSE <<>>)
    \o (IF u.path # <<>> /\ Head(u.path) # "/" /\ u.host # <<>> THEN <<"/">> ELSE <<>>)
    \o u.path
    \o (IF u.frag # <<>> THEN <<"#">> \o u.frag ELSE <<>>)

\* (*URL).EscapedPath on one token of a path: "#" is written %23
EscapeTok(t) == IF t = "#" THEN "%23" ELSE t

EscapedPath(path) == [i \in DOMAIN path |-> EscapeTok(path[i])]

\* sqlite_test.go:72-81: an href that does not parse is taken as a bare
\* path, which String writes escaped
ResolveHref(baseURL, p, href) ==
    IF baseURL.err THEN <<>>
    ELSE URLString([ResolveReference(baseURL,
                        IF ~p.err THEN p ELSE MakeURL(<<>>, <<>>, EscapedPath(href), <<>>))
                    EXCEPT !.frag = <<>>])

\* sqlite_test.go:56-81, href already trimmed
CleanTrimmed(base, href) ==
    IF href = <<>> \/ HasPrefix(href, <<"#">>) THEN <<>>
    ELSE IF \/ HasPrefix(ToLowerStr(href), <<"javascript:">>)
            \/ HasPrefix(ToLowerStr(href), <<"data:">>) THEN <<>>
    ELSE ResolveHref(ParseURL(IF HasSuffix(base, <<"/">>) THEN base ELSE base \o <<"/">>),
                     ParseURL(href), href)

\* CleanHref (src/sqlite_test.go:54-82)
CleanHref(base, rawHref) == CleanTrimmed(base, TrimSpace(rawHref))

\* ------------------------------------------------------------------------
\* Extract, the href half (src/unnamed/part_001:259-311).  A body is a
\* forest of nodes [tag, href, kids, text]; href is the value of the href
\* attribute (NoAttr when the node has none); a text node has tag "#text"
\* and its data in text.
\* ------------------------------------------------------------------------
NoAttr == <<"<none>">>

IsSkipTag(tag) == tag \in {"script", "style", "SCRIPT"}

\* part_001:289-299: what one node adds to hrefs at skip depth `depth`
OwnHref(n, depth) ==
    IF depth = 0 /\ n.tag \in {"a", "A"} /\ n.href # NoAttr /\ TrimSpace(n.href) # <<>>
    THEN <<TrimSpace(n.href)>> ELSE <<>>

\* part_001:276-278: the skip depth inside node n
DepthIn(n, skipDepth) == IF IsSkipTag(n.tag) THEN skipDepth + 1 ELSE skipDepth

RECURSIVE WalkHrefs(_, _)
WalkHrefs(nodes, skipDepth) ==
    IF nodes = <<>> THEN <<>>
    ELSE OwnHref(Head(nodes), DepthIn(Head(nodes), skipDepth))
         \o WalkHrefs(Head(nodes).kids, DepthIn(Head(nodes), skipDepth))
         \o WalkHrefs(Tail(nodes), skipDepth)

ExtractHrefs(body) == WalkHrefs(body, 0)

\* ------------------------------------------------------------------------
\* The web the crawler runs against
\* ------------------------------------------------------------------------
Root    == <<"http:", "//", "a", "/">>
PageD1  == <<"http:", "//", "a", "/", "d1">>
PageD2  == <<"http:", "//", "a", "/", "d2">>
PageD3  == <<"http:", "//", "a", "/", "d3">>
Evil    == <<"http:", "//", "b", "/", "evil">>
BadStart == <<":", "a">>

Anchor(h)  == [tag |-> "a", href |-> h, kids |-> <<>>, text |-> <<>>]
Script(ks) == [tag |-> "script", href |-> NoAttr, kids |-> ks, text |-> <<>>]

\* the site of TestCrawl (src/project03_test.go:127-144)
ScenarioRoot == <<Anchor(<<"/", "d1">>), Anchor(<<"/", "d2">>), Anchor(<<"/", "d3">>), Anchor(Evil)>>

RootBodies ==
    { ScenarioRoot,
      <<Anchor(<<"/", "d2">>), Anchor(<<"/", "d1">>), Anchor(<<"/", "d2">>), Anchor(<<"#", "f">>)>>,
      <<Anchor(<<"/", "d1", "#", "f">>), Anchor(<<" ", "/", "d1", " ">>), Anchor(<<"JavaScript:", "x">>),
        Script(<<Anchor(<<"/", "d3">>)>>), Anchor(<<"d2">>)>>,
      <<Anchor(<<"https:", "//", "a", "/", "d1">>), Anchor(<<"//", "b", "/", "d2">>),
        Anchor(<<"/", "d3">>), Anchor(<<"/">>)>> }

LeafBodies ==
    { <<>>,
      <<Anchor(<<"/", "d2">>)>>,
      <<Anchor(<<"/", "d3">>), Anchor(<<"/", "d1">>)>>,
      <<Anchor(<<"/">>), Anchor(Evil), Anchor(<<"d3">>)>> }

\* every page of host a, and the off-host page, which links back into a
Sites ==
    { [u \in {Root, PageD1, PageD2, PageD3, Evil} |->
          CASE u = Root   -> r
            [] u = PageD1 -> b1
            [] u = PageD2 -> b2
            [] u = PageD3 -> b3
            [] OTHER      -> <<Anchor(Root), Anchor(Evil)>>]
      : r \in RootBodies, b1 \in LeafBodies, b2 \in LeafBodies, b3 \in LeafBodies }

Starts == {Root, PageD1, BadStart}

\* ------------------------------------------------------------------------
\* Crawl (src/crawl.go:8-61)
\* ------------------------------------------------------------------------
\* crawl.go:18  startURL.Scheme + "://" + startURL.Host + "/"
HostBase(startURL) ==
    (IF startURL.scheme = <<>> THEN <<":">> ELSE startURL.scheme)
        \o <<"//">> \o startURL.host \o <<"/">>

\* variant of AlreadyVisited: the visited test of line 29 dropped
AlreadyVisitedNever(vis, cur) == FALSE

\* crawl.go:29
AlreadyVisited(vis, cur) == cur \in vis

\* variant of SameHost: the prefix test of line 51 dropped
SameHostAny(abs, hb) == TRUE

\* crawl.go:51
SameHost(abs, hb) == HasPrefix(abs, hb)

\* variant of LinkOf: the visited test of line 54 dropped
LinkOfUnchecked(abs, vis, hb) ==
    IF abs = <<>> THEN <<>>
    ELSE IF ~SameHost(abs, hb) THEN <<>>
    ELSE <<abs>>

\* crawl.go:47-57: what one cleaned href appends to the queue
LinkOf(abs, vis, hb) ==
    IF abs = <<>> THEN <<>>
    ELSE IF ~SameHost(abs, hb) THEN <<>>
    ELSE IF abs \notin vis THEN <<abs>> ELSE <<>>

\* variant of Links: the hrefs of a page walked last to first
RECURSIVE LinksReversed(_, _, _, _)
LinksReversed(cur, hrefs, vis, hb) ==
    IF hrefs = <<>> THEN <<>>
    ELSE LinksReversed(cur, Tail(hrefs), vis, hb)
         \o LinkOf(CleanHref(cur, Head(hrefs)), vis, hb)

\* crawl.go:44-58: the URLs one page appends to the queue, in append order
RECURSIVE Links(_, _, _, _)
Links(cur, hrefs, vis, hb) ==
    IF hrefs = <<>> THEN <<>>
    ELSE LinkOf(CleanHref(cur, Head(hrefs)), vis, hb)
         \o Links(cur, Tail(hrefs), vis, hb)

CrawlInit ==
    /\ pc = "call"
    /\ start \in Starts
    /\ max \in -1..MaxPages
    /\ site \in Sites
    /\ hostBase = <<>>
    /\ visited = {}
    /\ queue = <<>>
    /\ order = <<>>
    /\ crawlErr = "nil"
    /\ downloaded = <<>>
    /\ failed = {}
    /\ enqLog = <<>>

\* crawl.go:9-11
CrawlMaxNonPositive ==
    /\ pc = "call"
    /\ max <= 0
    /\ pc' = "done"
    /\ UNCHANGED <<start, max, site, hostBase, visited, queue, order,
                   crawlErr, downloaded, failed, enqLog>>
    /\ UNCHANGED indexVars
    /\ UNCHANGED buildVars
    /\ UNCHANGED restVars

\* variant of CrawlParseError: the start URL is parsed before maxPages is
\* looked at
CrawlParseErrorFirst ==
    /\ pc = "call"
    /\ ParseURL(start).err
    /\ crawlErr' = "parse"
    /\ pc' = "done"
    /\ UNCHANGED <<start, max, site, hostBase, visited, queue, order,
                   downloaded, failed, enqLog>>
    /\ UNCHANGED indexVars
    /\ UNCHANGED buildVars
    /\ UNCHANGED restVars

\* crawl.go:13-16
CrawlParseError ==
    /\ pc = "call"
    /\ max > 0
    /\ ParseURL(start).err
    /\ crawlErr' = "parse"
    /\ pc' = "done"
    /\ UNCHANGED <<start, max, site, hostBase, visited, queue, order,
                   downloaded, failed, enqLog>>
    /\ UNCHANGED indexVars
    /\ UNCHANGED buildVars
    /\ UNCHANGED restVars

\* variant of CrawlBegin: the error of url.Parse is not looked at
CrawlBeginUnchecked ==
    /\ pc = "call"
    /\ max > 0
    /\ hostBase' = HostBase(ParseURL(start))
    /\ visited' = {}
    /\ queue' = <<start>>
    /\ enqLog' = <<start>>
    /\ order' = <<>>
    /\ pc' = "loop"
    /\ UNCHANGED <<start, max, site, crawlErr, downloaded, failed>>
    /\ UNCHANGED indexVars
    /\ UNCHANGED buildVars
    /\ UNCHANGED restVars

\* crawl.go:13-22
CrawlBegin ==
    /\ pc = "call"
    /\ max > 0
    /\ ~ParseURL(start).err
    /\ hostBase' = HostBase(ParseURL(start))
    /\ visited' = {}
    /\ queue' = <<start>>
    /\ enqLog' = <<start>>
    /\ order' = <<>>
    /\ pc' = "loop"
    /\ UNCHANGED <<start, max, site, crawlErr, downloaded, failed>>
    /\ UNCHANGED indexVars
    /\ UNCHANGED buildVars
    /\ UNCHANGED restVars

\* variant of LoopCond: the bound compared with <=
LoopCondOneMore == Len(queue) > 0 /\ Len(order) <= max

\* crawl.go:24
LoopCond == Len(queue) > 0 /\ Len(order) < max

\* variant of CrawlSkipVisited: the visited head goes back to the end of
\* the queue
CrawlSkipVisitedKeeps ==
    /\ pc = "loop"
    /\ LoopCond
    /\ AlreadyVisited(visited, Head(queue))
    /\ queue' = Append(Tail(queue), Head(queue))
    /\ UNCHANGED <<pc, start, max, site, hostBase, visited, order,
                   crawlErr, downloaded, failed, enqLog>>
    /\ UNCHANGED indexVars
    /\ UNCHANGED buildVars
    /\ UNCHANGED restVars

\* crawl.go:24-31: the head of the queue was visited already
CrawlSkipVisited ==
    /\ pc = "loop"
    /\ LoopCond
    /\ AlreadyVisited(visited, Head(queue))
    /\ queue' = Tail(queue)
    /\ UNCHANGED <<pc, start, max, site, hostBase, visited, order,
                   crawlErr, downloaded, failed, enqLog>>
    /\ UNCHANGED indexVars
    /\ UNCHANGED buildVars
    /\ UNCHANGED restVars

\* variant of CrawlDownloadFails: the links of the page are followed though
\* its download failed
CrawlDownloadFailsExpands ==
    /\ pc = "loop"
    /\ LoopCond
    /\ ~AlreadyVisited(visited, Head(queue))
    /\ Head(queue) \in DOMAIN site
    /\ visited' = visited \cup {Head(queue)}
    /\ order' = Append(order, Head(queue))
    /\ downloaded' = Append(downloaded, Head(queue))
    /\ queue' = Tail(queue) \o Links(Head(queue), ExtractHrefs(site[Head(queue)]),
                                      visited \cup {Head(queue)}, hostBase)
    /\ enqLog' = enqLog \o Links(Head(queue), ExtractHrefs(site[Head(queue)]),
                                 visited \cup {Head(queue)}, hostBase)
    /\ failed' = failed \cup {Head(queue)}
    /\ UNCHANGED <<pc, start, max, site, hostBase, crawlErr>>
    /\ UNCHANGED indexVars
    /\ UNCHANGED buildVars
    /\ UNCHANGED restVars

\* variant of CrawlDownloadFails: the error of Download ends the crawl
CrawlDownloadFailsAborts ==
    /\ pc = "loop"
    /\ LoopCond
    /\ ~AlreadyVisited(visited, Head(queue))
    /\ queue' = Tail(queue)
    /\ visited' = visited \cup {Head(queue)}
    /\ order' = Append(order, Head(queue))
    /\ downloaded' = Append(downloaded, Head(queue))
    /\ failed' = failed \cup {Head(queue)}
    /\ crawlErr' = "download"
    /\ pc' = "done"
    /\ UNCHANGED <<start, max, site, hostBase, enqLog>>
    /\ UNCHANGED indexVars
    /\ UNCHANGED buildVars
    /\ UNCHANGED restVars

\* crawl.go:24-40: Download returns an error (a URL the site does not serve
\* always does; a served one may, for a network failure or a non-200 status)
CrawlDownloadFails ==
    /\ pc = "loop"
    /\ LoopCond
    /\ ~AlreadyVisited(visited, Head(queue))
    /\ queue' = Tail(queue)
    /\ visited' = visited \cup {Head(queue)}
    /\ order' = Append(order, Head(queue))
    /\ downloaded' = Append(downloaded, Head(queue))
    /\ failed' = failed \cup {Head(queue)}
    /\ UNCHANGED <<pc, start, max, site, hostBase, crawlErr, enqLog>>
    /\ UNCHANGED indexVars
    /\ UNCHANGED buildVars
    /\ UNCHANGED restVars

\* crawl.go:32-58 for the page cur, new being the URLs it appends
Expand(cur, new) ==
    /\ visited' = visited \cup {cur}
    /\ order' = Append(order, cur)
    /\ downloaded' = Append(downloaded, cur)
    /\ queue' = Tail(queue) \o new
    /\ enqLog' = enqLog \o new

\* variant of CrawlExpand: the hrefs resolved against the start URL
CrawlExpandStartBase ==
    /\ pc = "loop"
    /\ LoopCond
    /\ ~AlreadyVisited(visited, Head(queue))
    /\ Head(queue) \in DOMAIN site
    /\ Expand(Head(queue),
              Links(start, ExtractHrefs(site[Head(queue)]),
                    visited \cup {Head(queue)}, hostBase))
    /\ UNCHANGED <<pc, start, max, site, hostBase, crawlErr, failed>>
    /\ UNCHANGED indexVars
    /\ UNCHANGED buildVars
    /\ UNCHANGED restVars

\* crawl.go:24-58: Download succeeds, the links of the page are enqueued
CrawlExpand ==
    /\ pc = "loop"
    /\ LoopCond
    /\ ~AlreadyVisited(visited, Head(queue))
    /\ Head(queue) \in DOMAIN site
    /\ Expand(Head(queue),
              Links(Head(queue), ExtractHrefs(site[Head(queue)]),
                    visited \cup {Head(queue)}, hostBase))
    /\ UNCHANGED <<pc, start, max, site, hostBase, crawlErr, failed>>
    /\ UNCHANGED indexVars
    /\ UNCHANGED buildVars
    /\ UNCHANGED restVars

\* crawl.go:24,60
CrawlReturn ==
    /\ pc = "loop"
    /\ ~LoopCond
    /\ pc' = "done"
    /\ UNCHANGED <<start, max, site, hostBase, visited, queue, order,
                   crawlErr, downloaded, failed, enqLog>>
    /\ UNCHANGED indexVars
    /\ UNCHANGED buildVars
    /\ UNCHANGED restVars

CrawlNext ==
    \/ CrawlMaxNonPositive
    \/ CrawlParseError
    \/ CrawlBegin
    \/ CrawlSkipVisited
    \/ CrawlDownloadFails
    \/ CrawlExpand
    \/ CrawlReturn

\* the crawler is not running
CrawlIdle ==
    /\ pc = "idle"
    /\ start = <<>>
    /\ max = 0
    /\ site = <<>>
    /\ hostBase = <<>>
    /\ visited = {}
    /\ queue = <<>>
    /\ order = <<>>
    /\ crawlErr = "nil"
    /\ downloaded = <<>>
    /\ failed = {}
    /\ enqLog = <<>>

\* ------------------------------------------------------------------------
\* Words: lower-casing, stopwords, stemming
\* ------------------------------------------------------------------------
\* strings.ToLower on the words of the model
ToLower(w) ==
    CASE w = "Whales" -> "whales"
      [] w = "The"    -> "the"
      [] OTHER        -> w

\* the members of DefaultStopwords (src/stopwords.go:6-22) among the words
\* of the model
DefaultStopwords == {"the", "and"}

\* variant of IsStop: the lookup never finds the word
IsStopNever(lw) == FALSE

\* idx.stop[lw] (part_000:77, 119, 277, 327)
IsStop(lw) == lw \in DefaultStopwords

\* english.Stem(w, true) on the lower-case words of the model (part_000:61)
stem(w) ==
    CASE w = "whales" -> "whale"
      [] w = "ships"  -> "ship"
      [] OTHER        -> w

\* part_000:73-83 and 273-283: the stem a raw word is counted under, ""
\* when the word is dropped
Normalize(w) ==
    IF w = "" THEN ""
    ELSE IF IsStop(ToLower(w)) THEN ""
    ELSE stem(ToLower(w))

\* the names of the documents, in ascending string order
DocNames == <<"doc1", "doc2", "doc3">>

\* Go's < on the document names
StrLess(a, b) == IndexOf(DocNames, a) < IndexOf(DocNames, b)

\* the word sequences handed to AddDocument
ScenarioWords == <<"whale", "whale", "ship", "and", "the">>

WordLists ==
    { <<"the", "">>,
      <<"whale">>,
      <<"Whales", "ship">>,
      ScenarioWords }

\* the query terms handed to Search
Terms == {"", "the", "The", "whale", "Whales", "ship", "sea"}

\* ------------------------------------------------------------------------
\* Scores.  A float64 score tf * math.Log(x) is kept exactly, as the pair of
\* reduced fractions [tf, arg] standing for tf * ln(arg); rounding is not
\* modelled.  math.Log(1) is 0 and tf * 0 is 0, whatever tf.
\* ------------------------------------------------------------------------
RECURSIVE Gcd(_, _)
Gcd(a, b) == IF b = 0 THEN a ELSE Gcd(b, a % b)

\* float64(a) / float64(b), b > 0
Ratio(a, b) == [num |-> a \div Gcd(a, b), den |-> b \div Gcd(a, b)]

RECURSIVE Pow(_, _)
Pow(x, k) == IF k = 0 THEN 1 ELSE x * Pow(x, k - 1)

ZeroScore == [tf |-> [num |-> 0, den |-> 1], arg |-> [num |-> 1, den |-> 1]]

\* tf * idf, idf = math.Log(arg)   (part_000:135-136, 380-381)
Mul(tfr, arg) ==
    IF arg.num = arg.den \/ tfr.num = 0 THEN ZeroScore ELSE [tf |-> tfr, arg |-> arg]

\* a > b on float64: a.tf * ln(a.arg) > b.tf * ln(b.arg), that is
\* a.arg ^ (a.tf.num * b.tf.den) > b.arg ^ (b.tf.num * a.tf.den)
ScoreGT(a, b) ==
    IF a.arg = b.arg
    THEN IF a.arg.num > a.arg.den THEN a.tf.num * b.tf.den > b.tf.num * a.tf.den
         ELSE IF a.arg.num < a.arg.den THEN a.tf.num * b.tf.den < b.tf.num * a.tf.den
         ELSE FALSE
    ELSE Pow(a.arg.num, a.tf.num * b.tf.den) * Pow(b.arg.den, b.tf.num * a.tf.den)
           > Pow(b.arg.num, b.tf.num * a.tf.den) * Pow(a.arg.den, a.tf.num * b.tf.den)

\* a != b on float64
ScoreNE(a, b) == ScoreGT(a, b) \/ ScoreGT(b, a)

\* variant of lessHit: ties broken by URL descending
lessHitDesc(a, b) ==
    IF ScoreNE(a.Score, b.Score) THEN ScoreGT(a.Score, b.Score)
    ELSE StrLess(b.URL, a.URL)

\* lessHit (part_000:105-110)
lessHit(a, b) ==
    IF ScoreNE(a.Score, b.Score) THEN ScoreGT(a.Score, b.Score)
    ELSE StrLess(a.URL, b.URL)

\* sort.Slice(hits, lessHit) (part_000:140-142, 392-394), as an insertion
\* sort; the hits arrive in an arbitrary order (map iteration, row order)
RECURSIVE InsertHit(_, _)
InsertHit(x, sorted) ==
    IF sorted = <<>> THEN <<x>>
    ELSE IF lessHit(x, Head(sorted)) THEN <<x>> \o sorted
    ELSE <<Head(sorted)>> \o InsertHit(x, Tail(sorted))

Pick(S) == CHOOSE x \in S : TRUE

RECURSIVE SortHits(_)
SortHits(S) ==
    IF S = {} THEN <<>> ELSE InsertHit(Pick(S), SortHits(S \ {Pick(S)}))

Hit(url, score) == [URL |-> url, Score |-> score]

Ret(hs, e) == [hits |-> hs, err |-> e]

\* ------------------------------------------------------------------------
\* InMemIndexer (src/unnamed/part_000:38-152)
\* ------------------------------------------------------------------------
\* part_000:85-88  idx.tf[s][doc]++ for a surviving stem s
Bump(tfm, s, doc) ==
    IF s = "" THEN tfm
    ELSE IF s \notin DOMAIN tfm THEN tfm @@ (s :> (doc :> 1))
    ELSE IF doc \notin DOMAIN tfm[s] THEN [tfm EXCEPT ![s] = @ @@ (doc :> 1)]
    ELSE [tfm EXCEPT ![s][doc] = @ + 1]

\* part_000:72-92  the loop over words, on tf
RECURSIVE TfAfter(_, _, _)
TfAfter(tfm, doc, ws) ==
    IF ws = <<>> THEN tfm
    ELSE TfAfter(Bump(tfm, Normalize(Head(ws)), doc), doc, Tail(ws))

\* part_000:69, 89-91  the keys of seen after the loop
Seen(ws) == {Normalize(ws[i]) : i \in DOMAIN ws} \ {""}

\* part_000:70, 84  kept after the loop
Kept(ws) == Cardinality({i \in DOMAIN ws : Normalize(ws[i]) # ""})

\* a Go map read: the zero value for a missing key
Lookup(m, k) == IF k \in DOMAIN m THEN m[k] ELSE 0

\* variant of DfAfter: only a stem new to the index is counted
DfAfterNewOnly(dfm, seen) ==
    [s \in DOMAIN dfm \cup seen |-> IF s \in DOMAIN dfm THEN dfm[s] ELSE 1]

\* part_000:93-95  idx.df[s]++ for every seen stem
DfAfter(dfm, seen) ==
    [s \in DOMAIN dfm \cup seen |-> Lookup(dfm, s) + (IF s \in seen THEN 1 ELSE 0)]

\* InMemIndexer.AddDocument (part_000:65-99)
MemAddDocument(doc, ws) ==
    IF doc \in DOMAIN docLen
    THEN UNCHANGED <<tf, df, docLen, N>>
    ELSE /\ tf' = TfAfter(tf, doc, ws)
         /\ df' = DfAfter(df, Seen(ws))
         /\ docLen' = docLen @@ (doc :> Kept(ws))
         /\ N' = N + 1

\* variant of IdfArg: the quotient inverted, df over N
IdfArgInverted(n, d) == Ratio(d, n)

\* variant of IdfArg: add-one smoothing of the document total
IdfArgSmoothed(n, d) == Ratio(n + 1, d)

\* part_000:127, 355  float64(N) / float64(df), the argument of math.Log
IdfArg(n, d) == Ratio(n, d)

\* part_000:129-137  the hits before sorting
MemHits(s) ==
    { Hit(doc, Mul(Ratio(tf[s][doc], docLen[doc]), IdfArg(N, df[s])))
        : doc \in {d \in DOMAIN tf[s] : docLen[d] # 0} }

\* part_000:122-143
MemSearchStem(s) ==
    IF Lookup(df, s) = 0 THEN <<>> ELSE SortHits(MemHits(s))

\* InMemIndexer.Search (part_000:114-144); a nil result is <<>>
MemSearch(term) ==
    IF term = "" \/ N = 0 THEN <<>>
    ELSE IF IsStop(ToLower(term)) THEN <<>>
    ELSE MemSearchStem(stem(ToLower(term)))

\* ------------------------------------------------------------------------
\* SQLiteIndexer (src/unnamed/part_000:156-403)
\* ------------------------------------------------------------------------
\* the rowid SQLite gives a new row of a table with INTEGER PRIMARY KEY
NextId(tab) ==
    IF tab = {} THEN 1 ELSE 1 + CHOOSE m \in {r.id : r \in tab} : \A r \in tab : r.id <= m

\* part_000:250-259  INSERT OR IGNORE INTO urls (name) VALUES (?)
InsertOrIgnoreURL(tab, name) ==
    IF \E r \in tab : r.name = name THEN tab
    ELSE tab \cup {[id |-> NextId(tab), name |-> name]}

\* part_000:263  SELECT id FROM urls WHERE name = ?
URLId(tab, name) == (CHOOSE r \in tab : r.name = name).id

\* part_000:289, 303  INSERT OR IGNORE INTO words (word) VALUES (?)
InsertOrIgnoreWord(tab, w) ==
    IF \E r \in tab : r.word = w THEN tab
    ELSE tab \cup {[id |-> NextId(tab), word |-> w]}

\* part_000:295  (SELECT id FROM words WHERE word = ?)
WordId(tab, w) == (CHOOSE r \in tab : r.word = w).id

\* part_000:269-286  wordCount after the loop
WordCount(ws) ==
    [s \in Seen(ws) |-> Cardinality({i \in DOMAIN ws : Normalize(ws[i]) = s})]

\* variant of SqlPutHit: the count is added to the count already stored
SqlPutHitAdding(h, uid, wid, cnt) ==
    {r \in h : ~(r.url_id = uid /\ r.word_id = wid)}
    \cup {[url_id |-> uid, word_id |-> wid,
           count |-> cnt + IF \E r \in h : r.url_id = uid /\ r.word_id = wid
                           THEN (CHOOSE r \in h : r.url_id = uid /\ r.word_id = wid).count
                           ELSE 0]}

\* part_000:295, 309  INSERT OR REPLACE INTO hits (url_id, word_id, count)
SqlPutHit(h, uid, wid, cnt) ==
    {r \in h : ~(r.url_id = uid /\ r.word_id = wid)}
    \cup {[url_id |-> uid, word_id |-> wid, count |-> cnt]}

\* part_000:309 with the word row in place
PutTerm(wt, h, uid, w, cnt) ==
    [words |-> wt, hits |-> SqlPutHit(h, uid, WordId(wt, w), cnt)]

\* part_000:301-313  one iteration of the loop over wordCount
WriteTerm(db, uid, w, cnt) ==
    PutTerm(InsertOrIgnoreWord(db.words, w), db.hits, uid, w, cnt)

\* part_000:301-313  the loop, ord being the order the map is ranged in
RECURSIVE SqlWriteTerms(_, _, _, _)
SqlWriteTerms(db, uid, wc, ord) ==
    IF ord = <<>> THEN db
    ELSE SqlWriteTerms(WriteTerm(db, uid, Head(ord), wc[Head(ord)]), uid, wc, Tail(ord))

\* the orders a Go map with key set S can be ranged in
Orders(S) ==
    {o \in [1..Cardinality(S) -> S] : \A i, j \in 1..Cardinality(S) : o[i] = o[j] => i = j}

\* part_000:316  tx.Commit()
SqlCommit(ut, db) ==
    /\ urls' = ut
    /\ words' = db.words
    /\ hits' = db.hits

\* part_000:243-316 from the urls table as the INSERT of line 256 left it
SqlAddInto(ut, url, ws, ord) ==
    SqlCommit(ut, SqlWriteTerms([words |-> words, hits |-> hits],
                                URLId(ut, url), WordCount(ws), ord))

\* SQLiteIndexer.AddDocument (part_000:241-317), no statement failing
SqlAddDocument(url, ws) ==
    \E ord \in Orders(Seen(ws)) : SqlAddInto(InsertOrIgnoreURL(urls, url), url, ws, ord)

\* part_000:345  SELECT COUNT(*) FROM hits h JOIN words w ... WHERE w.word = ?
SqlDf(s) ==
    Cardinality({h \in hits : \E w \in words : w.id = h.word_id /\ w.word = s})

RECURSIVE SumCounts(_)
SumCounts(rows) ==
    IF rows = {} THEN 0 ELSE Pick(rows).count + SumCounts(rows \ {Pick(rows)})

\* part_000:358-364  the rows of the query: name, count, total_words
SqlRows(s) ==
    { [name |-> p[1].name, count |-> p[2].count,
       total |-> SumCounts({h2 \in hits : h2.url_id = p[1].id})]
        : p \in {q \in urls \X hits :
                    /\ q[1].id = q[2].url_id
                    /\ \E w \in words : w.id = q[2].word_id /\ w.word = s} }

\* part_000:370-384  the hits before sorting
SqlHits(s) ==
    { Hit(r.name, Mul(Ratio(r.count, r.total), IdfArg(Cardinality(urls), SqlDf(s))))
        : r \in {x \in SqlRows(s) : x.total > 0} }

\* part_000:332-396
SqlSearchStem(s) ==
    IF Cardinality(urls) = 0 THEN <<>>
    ELSE IF SqlDf(s) = 0 THEN <<>>
    ELSE SortHits(SqlHits(s))

\* SQLiteIndexer.Search (part_000:321-397), no statement failing; a nil
\* result is <<>>
SqlSearch(term) ==
    IF term = "" THEN <<>>
    ELSE IF IsStop(ToLower(term)) THEN <<>>
    ELSE SqlSearchStem(stem(ToLower(term)))

\* ------------------------------------------------------------------------
\* The calls, made on both indexers
\* ------------------------------------------------------------------------
Call(op, url, ws, term) == [op |-> op, url |-> url, words |-> ws, term |-> term]

\* NewInMemIndexer (part_000:48-58), NewSQLiteIndexer on an empty database
\* (part_000:163-195)
IndexInit ==
    /\ tf = <<>>
    /\ df = <<>>
    /\ docLen = <<>>
    /\ N = 0
    /\ urls = {}
    /\ words = {}
    /\ hits = {}
    /\ lastCall = Call("none", "", <<>>, "")
    /\ memRet = Ret(<<>>, "nil")
    /\ sqlRet = Ret(<<>>, "nil")
    /\ added = <<>>
    /\ addCount = 0
    /\ repeated = FALSE

\* the record of an AddDocument(url, ws) call
AddRecorded(url, ws) ==
    /\ lastCall' = Call("add", url, ws, "")
    /\ repeated' = (lastCall = Call("add", url, ws, ""))
    /\ added' = IF url \in DOMAIN added THEN added ELSE added @@ (url :> ws)
    /\ addCount' = addCount + 1

\* AddDocument(url, ws) on both indexers
AddDocument(url, ws) ==
    /\ addCount < MaxAdds
    /\ MemAddDocument(url, ws)
    /\ SqlAddDocument(url, ws)
    /\ memRet' = Ret(<<>>, "nil")
    /\ sqlRet' = Ret(<<>>, "nil")
    /\ AddRecorded(url, ws)
    /\ UNCHANGED crawlVars
    /\ UNCHANGED buildVars
    /\ UNCHANGED restVars

\* variant of Search: the lookup of a stem creates its entry in tf, as line
\* 86-88 of AddDocument does
SearchCreating(term) ==
    /\ memRet' = Ret(MemSearch(term), "nil")
    /\ sqlRet' = Ret(SqlSearch(term), "nil")
    /\ lastCall' = Call("search", "", <<>>, term)
    /\ repeated' = (lastCall = Call("search", "", <<>>, term))
    /\ tf' = IF stem(ToLower(term)) \in DOMAIN tf THEN tf
             ELSE tf @@ (stem(ToLower(term)) :> <<>>)
    /\ UNCHANGED <<df, docLen, N, urls, words, hits, added, addCount>>
    /\ UNCHANGED crawlVars
    /\ UNCHANGED buildVars
    /\ UNCHANGED restVars

\* Search(term) on both indexers
Search(term) ==
    /\ memRet' = Ret(MemSearch(term), "nil")
    /\ sqlRet' = Ret(SqlSearch(term), "nil")
    /\ lastCall' = Call("search", "", <<>>, term)
    /\ repeated' = (lastCall = Call("search", "", <<>>, term))
    /\ UNCHANGED <<tf, df, docLen, N, urls, words, hits, added, addCount>>
    /\ UNCHANGED crawlVars
    /\ UNCHANGED buildVars
    /\ UNCHANGED restVars

IndexNext ==
    \/ \E url \in Range(DocNames), ws \in WordLists : AddDocument(url, ws)
    \/ \E term \in Terms : Search(term)

\* ------------------------------------------------------------------------
\* SQLiteIndexer.AddDocument with a failing statement (part_000:241-317)
\* ------------------------------------------------------------------------
\* the three tables, as one value
Tables(ut, wt, ht) == [urls |-> ut, words |-> wt, hits |-> ht]

NoTables == Tables({}, {}, {})

\* Where a call can fail.  url: the INSERT of line 256 was done; k: the
\* iterations of the loop of 301-313 that were completed; half: the
\* iteration after them did line 303 and failed at 309.
\*   [url |-> FALSE]            Begin, Prepare or Exec of 243-259 fails
\*   [url |-> TRUE, k, FALSE]   263, 289, 295 fail (k = 0), 303 fails in
\*                              iteration k+1, or Commit fails (k = n)
\*   [url |-> TRUE, k, TRUE]    309 fails in iteration k+1
FailPoints(n) ==
    {[url |-> FALSE, k |-> 0, half |-> FALSE]}
    \cup {[url |-> TRUE, k |-> k, half |-> FALSE] : k \in 0..n}
    \cup {[url |-> TRUE, k |-> k, half |-> TRUE] : k \in 0..(n - 1)}

\* part_000:303 done for word w, 309 not
HalfTerm(db, w) == [words |-> InsertOrIgnoreWord(db.words, w), hits |-> db.hits]

\* part_000:301-313 up to the failing statement
TermsUntil(db, uid, wc, ord, p) ==
    IF p.half
    THEN HalfTerm(SqlWriteTerms(db, uid, wc, SubSeq(ord, 1, p.k)), ord[p.k + 1])
    ELSE SqlWriteTerms(db, uid, wc, SubSeq(ord, 1, p.k))

TxFrom(ut, db) == Tables(ut, db.words, db.hits)

\* part_000:263-313 on the urls table as line 256 left it
TxAfterURL(ut, url, ws, ord, p) ==
    TxFrom(ut, TermsUntil([words |-> words, hits |-> hits], URLId(ut, url),
                          WordCount(ws), ord, p))

\* what the transaction has written when its statement fails at p
TxAt(url, ws, ord, p) ==
    IF ~p.url THEN Tables(urls, words, hits)
    ELSE TxAfterURL(InsertOrIgnoreURL(urls, url), url, ws, ord, p)

\* variant of TxRollback: the writes of the transaction stay
TxRollbackKeeps(before, work) == work

\* part_000:247  the deferred tx.Rollback(): the tables are as they were
\* at Begin
TxRollback(before, work) == before

SqlStore(t) ==
    /\ urls' = t.urls
    /\ words' = t.words
    /\ hits' = t.hits

\* SQLiteIndexer.AddDocument, a statement failing at p
SqlAddFails(url, ws, ord, p) ==
    /\ tx' = TxAt(url, ws, ord, p)
    /\ SqlStore(TxRollback(Tables(urls, words, hits), TxAt(url, ws, ord, p)))
    /\ sqlRet' = Ret(<<>>, "storage")

\* ------------------------------------------------------------------------
\* BuildIndexFromURLList (src/unnamed/part_002:5-15), the indexer being
\* each of the two
\* ------------------------------------------------------------------------
\* the URL lists handed to BuildIndexFromURLList
URLLists ==
    { <<>>,
      <<"doc1">>,
      <<"doc1", "doc2">>,
      <<"doc2", "doc1", "doc2">> }

BuildInit ==
    /\ bpc = "loop"
    /\ blist \in URLLists
    /\ todo = blist
    /\ buildErr = "nil"
    /\ addErrs = {}
    /\ tx = NoTables
    /\ fetchLog = <<>>
    /\ addLog = <<>>

\* variant of BuildDownloadFails: the error of Download ends the run
BuildDownloadFailsAborts ==
    /\ bpc = "loop"
    /\ todo # <<>>
    /\ todo' = Tail(todo)
    /\ fetchLog' = Append(fetchLog, [url |-> Head(todo), ok |-> FALSE])
    /\ bpc' = "done"
    /\ buildErr' = "download"
    /\ UNCHANGED <<addErrs, tx, blist, addLog>>
    /\ UNCHANGED indexVars
    /\ UNCHANGED crawlVars
    /\ UNCHANGED restVars

\* part_002:7-10  Download fails, the URL is passed over
BuildDownloadFails ==
    /\ bpc = "loop"
    /\ todo # <<>>
    /\ todo' = Tail(todo)
    /\ fetchLog' = Append(fetchLog, [url |-> Head(todo), ok |-> FALSE])
    /\ UNCHANGED <<bpc, buildErr, addErrs, tx, blist, addLog>>
    /\ UNCHANGED indexVars
    /\ UNCHANGED crawlVars
    /\ UNCHANGED restVars

\* part_002:7-12  Extract gives the words ws, AddDocument returns nil
BuildAdd ==
    /\ bpc = "loop"
    /\ todo # <<>>
    /\ \E ws \in WordLists :
          /\ MemAddDocument(Head(todo), ws)
          /\ SqlAddDocument(Head(todo), ws)
          /\ AddRecorded(Head(todo), ws)
    /\ memRet' = Ret(<<>>, "nil")
    /\ sqlRet' = Ret(<<>>, "nil")
    /\ todo' = Tail(todo)
    /\ fetchLog' = Append(fetchLog, [url |-> Head(todo), ok |-> TRUE])
    /\ addLog' = Append(addLog, Head(todo))
    /\ UNCHANGED <<bpc, buildErr, addErrs, tx, blist>>
    /\ UNCHANGED crawlVars
    /\ UNCHANGED restVars

\* part_002:7-12  Extract gives the words ws, AddDocument of the
\* SQLiteIndexer returns an error, which line 12 drops
BuildAddFails ==
    /\ bpc = "loop"
    /\ todo # <<>>
    /\ \E ws \in WordLists :
          /\ MemAddDocument(Head(todo), ws)
          /\ \E ord \in Orders(Seen(ws)) :
                \E p \in FailPoints(Cardinality(Seen(ws))) :
                    SqlAddFails(Head(todo), ws, ord, p)
          /\ AddRecorded(Head(todo), ws)
    /\ memRet' = Ret(<<>>, "nil")
    /\ addErrs' = addErrs \cup {Head(todo)}
    /\ todo' = Tail(todo)
    /\ fetchLog' = Append(fetchLog, [url |-> Head(todo), ok |-> TRUE])
    /\ addLog' = Append(addLog, Head(todo))
    /\ UNCHANGED <<bpc, buildErr, blist>>
    /\ UNCHANGED crawlVars
    /\ UNCHANGED restVars

\* part_002:6,14  the loop is over: return nil
BuildReturn ==
    /\ bpc = "loop"
    /\ todo = <<>>
    /\ bpc' = "done"
    /\ buildErr' = "nil"
    /\ UNCHANGED <<todo, addErrs, tx, blist, fetchLog, addLog>>
    /\ UNCHANGED indexVars
    /\ UNCHANGED crawlVars
    /\ UNCHANGED restVars

BuildNext ==
    \/ BuildDownloadFails
    \/ BuildAdd
    \/ BuildAddFails
    \/ BuildReturn

\* BuildIndexFromURLList is not running
BuildIdle ==
    /\ bpc = "idle"
    /\ todo = <<>>
    /\ buildErr = "nil"
    /\ addErrs = {}
    /\ tx = NoTables
    /\ blist = <<>>
    /\ fetchLog = <<>>
    /\ addLog = <<>>

\* ------------------------------------------------------------------------
\* InMemIndexer.AddDocument called by two goroutines with no lock
\* (part_000:65-99).  The struct has no mutex; each statement is a step.
\* idx.N++ is a read and a write.  Two goroutines writing a map at once is a
\* data race: the statements may take effect one after the other, or the
\* runtime may stop the program ("concurrent map writes").
\* ------------------------------------------------------------------------
Procs == {1, 2}

Other(p) == 3 - p

\* the arguments of the racing calls
RaceArgs == {[url |-> u, words |-> ws] : u \in {"doc1", "doc2"}, ws \in WordLists}

\* goroutine p is inside AddDocument
Running(p) == rpc[p] \notin {"call", "done"}

\* variant of IsDup: the duplicate test never finds the document
IsDupNever(doc) == FALSE

\* part_000:66  _, dup := idx.docLen[doc]
IsDup(doc) == doc \in DOMAIN docLen

\* part_000:96  idx.docLen[doc] = kept
SetLen(m, doc, kept) == [d \in DOMAIN m \cup {doc} |-> IF d = doc THEN kept ELSE m[d]]

RaceInit ==
    /\ rpc = [p \in Procs |-> "call"]
    /\ rarg \in [Procs -> RaceArgs]
    /\ rloc = [p \in Procs |-> 0]
    /\ overlap = FALSE
    /\ crashed = FALSE

\* part_000:66-68  the duplicate test
RaceCheck(p) ==
    /\ ~crashed
    /\ rpc[p] = "call"
    /\ rpc' = [rpc EXCEPT ![p] = IF IsDup(rarg[p].url) THEN "done" ELSE "loop"]
    /\ overlap' = (overlap \/ Running(Other(p)))
    /\ UNCHANGED <<rarg, rloc, crashed>>
    /\ UNCHANGED indexVars
    /\ UNCHANGED <<crawlVars, buildVars, connVars, pageVars, lateVars>>

\* part_000:72-92  the loop over words
RaceLoop(p) ==
    /\ ~crashed
    /\ rpc[p] = "loop"
    /\ tf' = TfAfter(tf, rarg[p].url, rarg[p].words)
    /\ rpc' = [rpc EXCEPT ![p] = "df"]
    /\ UNCHANGED <<rarg, rloc, overlap, crashed>>
    /\ UNCHANGED <<df, docLen, N, urls, words, hits,
                   lastCall, memRet, sqlRet, added, addCount, repeated>>
    /\ UNCHANGED <<crawlVars, buildVars, connVars, pageVars, lateVars>>

\* part_000:93-95  the loop over seen
RaceDf(p) ==
    /\ ~crashed
    /\ rpc[p] = "df"
    /\ df' = DfAfter(df, Seen(rarg[p].words))
    /\ rpc' = [rpc EXCEPT ![p] = "len"]
    /\ UNCHANGED <<rarg, rloc, overlap, crashed>>
    /\ UNCHANGED <<tf, docLen, N, urls, words, hits,
                   lastCall, memRet, sqlRet, added, addCount, repeated>>
    /\ UNCHANGED <<crawlVars, buildVars, connVars, pageVars, lateVars>>

\* part_000:96
RaceLen(p) ==
    /\ ~crashed
    /\ rpc[p] = "len"
    /\ docLen' = SetLen(docLen, rarg[p].url, Kept(rarg[p].words))
    /\ rpc' = [rpc EXCEPT ![p] = "read"]
    /\ UNCHANGED <<rarg, rloc, overlap, crashed>>
    /\ UNCHANGED <<tf, df, N, urls, words, hits,
                   lastCall, memRet, sqlRet, added, addCount, repeated>>
    /\ UNCHANGED <<crawlVars, buildVars, connVars, pageVars, lateVars>>

\* part_000:97  idx.N++, the read
RaceReadN(p) ==
    /\ ~crashed
    /\ rpc[p] = "read"
    /\ rloc' = [rloc EXCEPT ![p] = N]
    /\ rpc' = [rpc EXCEPT ![p] = "write"]
    /\ UNCHANGED <<rarg, overlap, crashed>>
    /\ UNCHANGED indexVars
    /\ UNCHANGED <<crawlVars, buildVars, connVars, pageVars, lateVars>>

\* part_000:97-98  idx.N++, the write; return nil
RaceWriteN(p) ==
    /\ ~crashed
    /\ rpc[p] = "write"
    /\ N' = rloc[p] + 1
    /\ rpc' = [rpc EXCEPT ![p] = "done"]
    /\ UNCHANGED <<rarg, rloc, overlap, crashed>>
    /\ UNCHANGED <<tf, df, docLen, urls, words, hits,
                   lastCall, memRet, sqlRet, added, addCount, repeated>>
    /\ UNCHANGED <<crawlVars, buildVars, connVars, pageVars, lateVars>>

\* both goroutines are between line 72 and line 96: the runtime may find
\* the concurrent map write and exit
RaceCrash ==
    /\ ~crashed
    /\ \A p \in Procs : rpc[p] \in {"loop", "df", "len"}
    /\ crashed' = TRUE
    /\ UNCHANGED <<rpc, rarg, rloc, overlap>>
    /\ UNCHANGED indexVars
    /\ UNCHANGED <<crawlVars, buildVars, connVars, pageVars, lateVars>>

RaceNext ==
    \/ \E p \in Procs : RaceCheck(p)
    \/ \E p \in Procs : RaceLoop(p)
    \/ \E p \in Procs : RaceDf(p)
    \/ \E p \in Procs : RaceLen(p)
    \/ \E p \in Procs : RaceReadN(p)
    \/ \E p \in Procs : RaceWriteN(p)
    \/ RaceCrash

\* no goroutine calls the InMemIndexer
RaceIdle ==
    /\ rpc = <<>>
    /\ rarg = <<>>
    /\ rloc = <<>>
    /\ overlap = FALSE
    /\ crashed = FALSE

\* ------------------------------------------------------------------------
\* SQLiteIndexer.AddDocument called by two goroutines (part_000:241-317) on
\* the pool of one connection that NewSQLiteIndexer sets up (part_000:175)
\* ------------------------------------------------------------------------
\* the arguments of the calls, and the order each ranges wordCount in
ConnArgs ==
    UNION { {[url |-> u, words |-> ws, ord |-> o] : u \in {"doc1", "doc2"}, o \in Orders(Seen(ws))}
            : ws \in WordLists }

\* part_000:243-316 as one indivisible transaction on the tables t
TxRun(t, a) ==
    TxFrom(InsertOrIgnoreURL(t.urls, a.url),
           SqlWriteTerms([words |-> t.words, hits |-> t.hits],
                         URLId(InsertOrIgnoreURL(t.urls, a.url), a.url),
                         WordCount(a.words), a.ord))

\* the write statements of one call: line 256, then 303 and 309 per stem
NStmts(a) == 1 + 2 * Len(a.ord)

\* part_000:303  wordStmt.Exec(word)
StmtWord(t, w) == Tables(t.urls, InsertOrIgnoreWord(t.words, w), t.hits)

\* part_000:309  hitStmt.Exec(urlID, word, count)
StmtHit(t, uid, w, cnt) == Tables(t.urls, t.words, SqlPutHit(t.hits, uid, WordId(t.words, w), cnt))

\* the write statement number k + 1 of the call with arguments a
Stmt(t, a, k) ==
    IF k = 0 THEN Tables(InsertOrIgnoreURL(t.urls, a.url), t.words, t.hits)
    ELSE IF k % 2 = 1 THEN StmtWord(t, a.ord[(k + 1) \div 2])
    ELSE StmtHit(t, URLId(t.urls, a.url), a.ord[k \div 2], WordCount(a.words)[a.ord[k \div 2]])

ConnInit ==
    /\ conn = 0
    /\ spc = [p \in Procs |-> "call"]
    /\ sarg \in [Procs -> ConnArgs]
    /\ swork = [p \in Procs |-> [tab |-> NoTables, k |-> 0]]
    /\ stmts = <<>>

\* variant of ConnBegin: Begin does not wait for the connection (a pool of
\* more than one connection)
ConnBeginNoWait(p) ==
    /\ spc[p] = "call"
    /\ conn' = p
    /\ spc' = [spc EXCEPT ![p] = "tx"]
    /\ swork' = [swork EXCEPT ![p] = [tab |-> Tables(urls, words, hits), k |-> 0]]
    /\ UNCHANGED <<sarg, stmts>>
    /\ UNCHANGED indexVars
    /\ UNCHANGED <<crawlVars, buildVars, raceVars, pageVars, lateVars>>

\* part_000:243  idx.db.Begin() waits until the connection is free
ConnBegin(p) ==
    /\ spc[p] = "call"
    /\ conn = 0
    /\ conn' = p
    /\ spc' = [spc EXCEPT ![p] = "tx"]
    /\ swork' = [swork EXCEPT ![p] = [tab |-> Tables(urls, words, hits), k |-> 0]]
    /\ UNCHANGED <<sarg, stmts>>
    /\ UNCHANGED indexVars
    /\ UNCHANGED <<crawlVars, buildVars, raceVars, pageVars, lateVars>>

\* part_000:256, 303, 309  the next write statement of the transaction
ConnStmt(p) ==
    /\ spc[p] = "tx"
    /\ swork[p].k < NStmts(sarg[p])
    /\ swork' = [swork EXCEPT ![p] = [tab |-> Stmt(swork[p].tab, sarg[p], swork[p].k),
                                      k |-> swork[p].k + 1]]
    /\ stmts' = Append(stmts, p)
    /\ UNCHANGED <<conn, spc, sarg>>
    /\ UNCHANGED indexVars
    /\ UNCHANGED <<crawlVars, buildVars, raceVars, pageVars, lateVars>>

\* part_000:316  tx.Commit() succeeds; the connection goes back to the pool
ConnCommit(p) ==
    /\ spc[p] = "tx"
    /\ swork[p].k = NStmts(sarg[p])
    /\ SqlStore(swork[p].tab)
    /\ conn' = 0
    /\ spc' = [spc EXCEPT ![p] = "done"]
    /\ UNCHANGED <<sarg, swork, stmts>>
    /\ UNCHANGED <<tf, df, docLen, N, lastCall, memRet, sqlRet, added, addCount, repeated>>
    /\ UNCHANGED <<crawlVars, buildVars, raceVars, pageVars, lateVars>>

\* a statement or Commit fails: the call returns the error, the deferred
\* Rollback of line 247 ends the transaction and frees the connection
ConnFail(p) ==
    /\ spc[p] = "tx"
    /\ SqlStore(TxRollback(Tables(urls, words, hits), swork[p].tab))
    /\ conn' = 0
    /\ spc' = [spc EXCEPT ![p] = "failed"]
    /\ UNCHANGED <<sarg, swork, stmts>>
    /\ UNCHANGED <<tf, df, docLen, N, lastCall, memRet, sqlRet, added, addCount, repeated>>
    /\ UNCHANGED <<crawlVars, buildVars, raceVars, pageVars, lateVars>>

ConnNext ==
    \/ \E p \in Procs : ConnBegin(p)
    \/ \E p \in Procs : ConnStmt(p)
    \/ \E p \in Procs : ConnCommit(p)
    \/ \E p \in Procs : ConnFail(p)

\* no goroutine calls the SQLiteIndexer
ConnIdle ==
    /\ conn = 0
    /\ spc = <<>>
    /\ sarg = <<>>
    /\ swork = <<>>
    /\ stmts = <<>>

\* ------------------------------------------------------------------------
\* Download (src/download.go:9-21)
\* ------------------------------------------------------------------------
\* the nil []byte
NoBody == <<"<nil>">>

Statuses == {200, 201, 204, 206, 301, 404, 500}

PageTexts == {<<>>, <<"hello">>, <<"hello", " ", "world">>}

\* What the network and the server do with the GET.  net "refused":
\* http.Get returns an error.  read "cut": the connection breaks while the
\* body is read, after all but its last token.
Responses ==
    [net : {"ok", "refused"}, status : Statuses, body : PageTexts, read : {"ok", "cut"}]

\* download.go:20  io.ReadAll(resp.Body): the bytes read, and the error
\* of the read that failed
ReadAll(r) ==
    IF r.read = "ok" THEN [body |-> r.body, err |-> "nil"]
    ELSE [body |-> SubSeq(r.body, 1, Len(r.body) - 1), err |-> "read"]

\* Download (download.go:9-21)
Download(r) ==
    IF r.net # "ok" THEN [body |-> NoBody, err |-> "net"]
    ELSE IF r.status # 200 THEN [body |-> NoBody, err |-> "status"]
    ELSE ReadAll(r)

\* ------------------------------------------------------------------------
\* Extract (src/unnamed/part_001:259-311), as the code walks the tree: one
\* counter skipDepth, raised on entering a script or style element and
\* lowered on leaving it
\* ------------------------------------------------------------------------
Text(toks) == [tag |-> "#text", href |-> NoAttr, kids |-> <<>>, text |-> toks]

Elem(tag, ks) == [tag |-> tag, href |-> NoAttr, kids |-> ks, text |-> <<>>]

Link(h) == [tag |-> "link", href |-> h, kids |-> <<>>, text |-> <<>>]

\* part_001:265  a token of text data matched by [\p{L}\p{N}]+
IsWordTok(t) == t \notin {" ", ",", "."}

\* part_001:282-288  the words of a text node, lower-cased
RECURSIVE LowerWords(_)
LowerWords(toks) ==
    IF toks = <<>> THEN <<>>
    ELSE (IF IsWordTok(Head(toks)) THEN <<ToLower(Head(toks))>> ELSE <<>>)
         \o LowerWords(Tail(toks))

NodeWords(n) == IF n.tag = "#text" THEN LowerWords(n.text) ELSE <<>>

\* part_001:276-278
Enter(n, st) ==
    IF IsSkipTag(n.tag) THEN [st EXCEPT !.skipDepth = @ + 1] ELSE st

\* part_001:280-300
Collect(n, st) ==
    IF st.skipDepth = 0
    THEN [st EXCEPT !.words = @ \o NodeWords(n), !.hrefs = @ \o OwnHref(n, 0)]
    ELSE st

\* variant of Leave: a flag cleared on leaving, not a counter lowered
LeaveCleared(n, st) ==
    IF IsSkipTag(n.tag) THEN [st EXCEPT !.skipDepth = 0] ELSE st

\* part_001:305-307
Leave(n, st) ==
    IF IsSkipTag(n.tag) THEN [st EXCEPT !.skipDepth = @ - 1] ELSE st

\* part_001:274-308  walk, and the loop of 301-303 over the children
RECURSIVE walk(_, _), walkAll(_, _)
walk(n, st) == Leave(n, walkAll(n.kids, Collect(n, Enter(n, st))))

walkAll(nodes, st) ==
    IF nodes = <<>> THEN st ELSE walkAll(Tail(nodes), walk(Head(nodes), st))

\* Extract on the parsed tree; skipDepth is the counter as the walk left it
Extract(body) == walkAll(body, [words |-> <<>>, hrefs |-> <<>>, skipDepth |-> 0])

\* the trees handed to Extract
LeafNodes ==
    { Text(<<"Whales", " ", "ship">>),
      Anchor(<<"/", "d1">>),
      Anchor(<<" ", "/", "d2", " ">>),
      Anchor(<<>>),
      Anchor(NoAttr),
      Link(<<"/", "d3">>) }

KidLists == {<<>>} \cup {<<k>> : k \in LeafNodes} \cup {<<k, l>> : k \in LeafNodes, l \in LeafNodes}

NestedNodes ==
    { Elem(t1, <<Elem(t2, <<k>>), l>>) :
        t1 \in {"script", "style", "div", "SCRIPT"}, t2 \in {"script", "style", "div"},
        k \in {Text(<<"The", ",", "sea">>), Anchor(<<"/", "d1">>)},
        l \in {Text(<<"Whales", " ", "ship">>), Anchor(<<"d2">>)} }

TopNodes ==
    LeafNodes \cup {Elem(t, ks) : t \in {"script", "style", "div"}, ks \in KidLists}
              \cup NestedNodes

Bodies ==
    {<<n>> \o rest : n \in TopNodes,
                     rest \in {<<>>, <<Text(<<"ship">>), Anchor(<<"/", "d3">>)>>}}

\* ------------------------------------------------------------------------
\* the bases and hrefs handed to CleanHref
\* ------------------------------------------------------------------------
ExampleBase == <<"http:", "//", "example.com", "/", "base", "/">>

RelBase == <<"a", "/", "d1">>

Bases == {Root, PageD1, ExampleBase, RelBase, BadStart}

Hrefs ==
    { <<>>, <<" ">>, <<"#", "f">>, <<" ", "#", "f">>,
      <<"javascript:", "x">>, <<"JavaScript:", "x">>, <<"data:", "x">>, <<" ", "DATA:", "x">>,
      <<"/", "d1">>, <<"/", "d1", "#", "f">>, <<" ", "/", "d1", " ">>,
      <<"d2">>, <<"c.html">>, <<"c.html", "#", "sec">>,
      <<"https:", "//", "a", "/", "d1">>, <<"//", "b", "/", "d2">>,
      <<"http:", "//", "b", "/", "evil", "#", "f">>,
      <<":", "a">>, <<":", "a", "#", "f">> }

\* ------------------------------------------------------------------------
\* one call of Download, Extract or CleanHref
\* ------------------------------------------------------------------------
PageInit ==
    /\ pdone = FALSE
    /\ pout = <<>>
    /\ \/ pfn = "Download" /\ pin \in Responses
       \/ pfn = "Extract" /\ pin \in Bodies
       \/ pfn = "CleanHref" /\ pin \in [base : Bases, href : Hrefs]

CallDownload ==
    /\ pfn = "Download"
    /\ ~pdone
    /\ pout' = Download(pin)
    /\ pdone' = TRUE
    /\ UNCHANGED <<pfn, pin>>
    /\ UNCHANGED <<crawlVars, indexVars, buildVars, raceVars, connVars, lateVars>>

CallExtract ==
    /\ pfn = "Extract"
    /\ ~pdone
    /\ pout' = Extract(pin)
    /\ pdone' = TRUE
    /\ UNCHANGED <<pfn, pin>>
    /\ UNCHANGED <<crawlVars, indexVars, buildVars, raceVars, connVars, lateVars>>

CallCleanHref ==
    /\ pfn = "CleanHref"
    /\ ~pdone
    /\ pout' = CleanHref(pin.base, pin.href)
    /\ pdone' = TRUE
    /\ UNCHANGED <<pfn, pin>>
    /\ UNCHANGED <<crawlVars, indexVars, buildVars, raceVars, connVars, lateVars>>

PageNext ==
    \/ CallDownload
    \/ CallExtract
    \/ CallCleanHref

\* no call is made
PageIdle ==
    /\ pfn = "none"
    /\ pin = <<>>
    /\ pout = <<>>
    /\ pdone = FALSE

\* ------------------------------------------------------------------------
\* The Indexer implementations of project02: InMemIndex
\* (src/inmem_index.go:9-103), SQLiteIndex (src/unnamed/part_001:13-251)
\* and SQLiteIndexV2 (src/sqlite_index_v2.go:13-256).  english.Stem lowers
\* the case of its argument, so stem(w) of inmem_index.go:47 is
\* stem(ToLower(w)) and the three count a raw word under Normalize(w).
\* ------------------------------------------------------------------------
\* NewInMemIndex (inmem_index.go:19-29)
OldMemEmpty == [tf |-> <<>>, df |-> <<>>, docLen |-> <<>>, N |-> 0]

\* InMemIndex.Add (inmem_index.go:32-63)
OldMemAdd(m, doc, ws) ==
    IF doc \in DOMAIN m.docLen THEN m
    ELSE [tf     |-> TfAfter(m.tf, doc, ws),
          df     |-> DfAfter(m.df, Seen(ws)),
          docLen |-> SetLen(m.docLen, doc, Kept(ws)),
          N      |-> m.N + 1]

\* inmem_index.go:86-94  the hits before sorting
OldMemHits(m, s) ==
    { Hit(doc, Mul(Ratio(m.tf[s][doc], m.docLen[doc]), IdfArg(m.N, m.df[s])))
        : doc \in {d \in DOMAIN m.tf[s] : m.docLen[d] # 0} }

\* InMemIndex.SearchTFIDF (inmem_index.go:71-100); a nil result is <<>>
OldMemSearch(m, term) ==
    IF term = "" \/ m.N = 0 THEN <<>>
    ELSE IF IsStop(ToLower(term)) THEN <<>>
    ELSE IF Lookup(m.df, stem(ToLower(term))) = 0 THEN <<>>
    ELSE SortHits(OldMemHits(m, stem(ToLower(term))))

\* Where a storage statement of an Add call fails: at "none", or at the
\* statement kind `at` of the word (SQLiteIndex) or term (SQLiteIndexV2)
\* number i.
FailAt(at, i) == [at |-> at, i |-> i]

NoFail == FailAt("none", 0)

\* NewSQLiteIndex on an empty database (part_001:20-79)
V1Empty == [urls |-> {}, terms |-> {}, hits |-> {}, N |-> 0]

\* the tables of SQLiteIndex.Add while it runs, with its locals kept and
\* seen
V1Work(x, ut) ==
    [urls |-> ut, terms |-> x.terms, hits |-> x.hits, N |-> x.N, kept |-> 0, seen |-> {}]

\* part_001:115  kept++
V1Kept(st) == [st EXCEPT !.kept = @ + 1]

\* part_001:118-140  the terms row of stem s is created with df 1, or its
\* df raised when s was not seen in this document
V1TermStep(st, s) ==
    IF \E t \in st.terms : t.word = s
    THEN IF s \in st.seen THEN st
         ELSE [st EXCEPT !.terms = {IF t.word = s THEN [t EXCEPT !.df = @ + 1] ELSE t : t \in @},
                         !.seen = @ \cup {s}]
    ELSE [st EXCEPT !.terms = @ \cup {[id |-> NextId(@), word |-> s, df |-> 1]},
                    !.seen = @ \cup {s}]

V1TermId(st, s) == (CHOOSE t \in st.terms : t.word = s).id

\* part_001:143-157  the hits row of (term, url) is created with count 1,
\* or its count raised
V1PutHit(ht, tid, uid) ==
    IF \E h \in ht : h.term_id = tid /\ h.url_id = uid
    THEN {IF h.term_id = tid /\ h.url_id = uid THEN [h EXCEPT !.count = @ + 1] ELSE h : h \in ht}
    ELSE ht \cup {[term_id |-> tid, url_id |-> uid, count |-> 1]}

V1HitStep(st, uid, s) == [st EXCEPT !.hits = V1PutHit(@, V1TermId(st, s), uid)]

\* part_001:103-157  one iteration of the loop for a word kept under stem
\* s; f is the statement that fails in it: the terms statements
\* (continue at 122-137), the hits statements (continue at 149-156)
V1Word(st, uid, s, f) ==
    IF f = "term" THEN V1Kept(st)
    ELSE IF f = "hit" THEN V1TermStep(V1Kept(st), s)
    ELSE V1HitStep(V1TermStep(V1Kept(st), s), uid, s)

\* part_001:103-158  the loop over words, from word number i on
RECURSIVE V1Words(_, _, _, _, _)
V1Words(st, uid, ws, i, fail) ==
    IF i > Len(ws) THEN st
    ELSE V1Words(IF Normalize(ws[i]) = "" THEN st
                 ELSE V1Word(st, uid, Normalize(ws[i]), IF fail.i = i THEN fail.at ELSE "none"),
                 uid, ws, i + 1, fail)

\* part_001:160-167  UPDATE urls SET len = kept, then idx.N++; a failing
\* UPDATE returns before the increment
V1Finish(st, uid, fail) ==
    IF fail.at = "len"
    THEN [urls |-> st.urls, terms |-> st.terms, hits |-> st.hits, N |-> st.N]
    ELSE [urls  |-> {IF r.id = uid THEN [r EXCEPT !.len = st.kept] ELSE r : r \in st.urls},
          terms |-> st.terms, hits |-> st.hits, N |-> st.N + 1]

\* SQLiteIndex.Add (part_001:83-168); every statement is committed as it
\* runs
V1Add(x, doc, ws, fail) ==
    IF \E r \in x.urls : r.url = doc THEN x
    ELSE IF fail.at = "url" THEN x
    ELSE V1Finish(V1Words(V1Work(x, x.urls \cup {[id |-> NextId(x.urls), url |-> doc, len |-> 0]}),
                          NextId(x.urls), ws, 1, fail),
                  NextId(x.urls), fail)

\* part_001:212-229  the rows of the join, as hits before sorting
V1Hits(x, t) ==
    { Hit(p[2].url, Mul(Ratio(p[1].count, p[2].len), IdfArg(x.N, t.df)))
        : p \in {q \in x.hits \X x.urls :
                    q[1].term_id = t.id /\ q[1].url_id = q[2].id /\ q[2].len > 0} }

\* SQLiteIndex.SearchTFIDF (part_001:182-237); a nil result is <<>>
V1Search(x, term) ==
    IF term = "" \/ x.N = 0 THEN <<>>
    ELSE IF IsStop(ToLower(term)) THEN <<>>
    ELSE IF ~\E t \in x.terms : t.word = stem(ToLower(term)) THEN <<>>
    ELSE SortHits(V1Hits(x, CHOOSE t \in x.terms : t.word = stem(ToLower(term))))

\* NewSQLiteIndexV2 on an empty database (sqlite_index_v2.go:20-88)
V2Empty == [documents |-> {}, vocabulary |-> {}, term_frequencies |-> {}, N |-> 0]

\* the tables of the transaction of SQLiteIndexV2.Add, and the variable
\* err of the function that the deferred func of lines 97-103 tests
V2Work(x, dt) ==
    [documents |-> dt, vocabulary |-> x.vocabulary,
     term_frequencies |-> x.term_frequencies, err |-> "nil"]

\* sqlite_index_v2.go:149-170  the vocabulary row of the term is created
\* with document_frequency 1, or its document_frequency raised
V2VocabStep(st, s) ==
    IF \E v \in st.vocabulary : v.term = s
    THEN [st EXCEPT !.vocabulary =
              {IF v.term = s THEN [v EXCEPT !.document_frequency = @ + 1] ELSE v : v \in @}]
    ELSE [st EXCEPT !.vocabulary =
              @ \cup {[id |-> NextId(@), term |-> s, document_frequency |-> 1]}]

V2TermId(st, s) == (CHOOSE v \in st.vocabulary : v.term = s).id

\* sqlite_index_v2.go:173-181  the term_frequencies row; err is assigned
\* the result of the Exec
V2FreqStep(st, did, s, cnt) ==
    [st EXCEPT !.term_frequencies =
                   @ \cup {[doc_id |-> did, term_id |-> V2TermId(st, s), frequency |-> cnt]},
               !.err = "nil"]

\* sqlite_index_v2.go:146-182  one iteration of the loop over uniqueTerms.
\* A failing vocabulary statement continues with err as the QueryRow of
\* line 149 left it (sql.ErrNoRows for a new term: the err of lines 152
\* and 165 is another variable); a failing Exec of 173 assigns err.
V2Term(st, did, s, cnt, f) ==
    IF f = "vocab"
    THEN [st EXCEPT !.err = IF \E v \in st.vocabulary : v.term = s THEN "nil" ELSE "norows"]
    ELSE IF f = "freq" THEN [V2VocabStep(st, s) EXCEPT !.err = "exec"]
    ELSE V2FreqStep(V2VocabStep(st, s), did, s, cnt)

\* sqlite_index_v2.go:146-182  the loop, from term number i of the range
\* order ord on
RECURSIVE V2Terms(_, _, _, _, _, _)
V2Terms(st, did, wc, ord, i, fail) ==
    IF i > Len(ord) THEN st
    ELSE V2Terms(V2Term(st, did, ord[i], wc[ord[i]], IF fail.i = i THEN fail.at ELSE "none"),
                 did, wc, ord, i + 1, fail)

\* sqlite_index_v2.go:97-103, 185  idx.N++, then the deferred func: Commit
\* when err is nil, else Rollback; the error of Commit is dropped
V2End(x, st, fail) ==
    IF st.err # "nil" \/ fail.at = "commit" THEN [x EXCEPT !.N = @ + 1]
    ELSE [documents |-> st.documents, vocabulary |-> st.vocabulary,
          term_frequencies |-> st.term_frequencies, N |-> x.N + 1]

\* SQLiteIndexV2.Add (sqlite_index_v2.go:91-186); word_count is set to
\* len(words) at line 140
V2Add(x, doc, ws, ord, fail) ==
    IF \E d \in x.documents : d.url = doc THEN x
    ELSE IF fail.at \in {"doc", "count"} THEN x
    ELSE V2End(x,
               V2Terms(V2Work(x, x.documents \cup {[id |-> NextId(x.documents), url |-> doc,
                                                    word_count |-> Len(ws)]}),
                       NextId(x.documents), WordCount(ws), ord, 1, fail),
               fail)

\* sqlite_index_v2.go:201-232  the rows of the query, as hits before
\* sorting
V2Hits(x, s) ==
    { Hit(p[3].url, Mul(Ratio(p[2].frequency, p[3].word_count),
                        IdfArg(x.N, p[1].document_frequency)))
        : p \in {q \in x.vocabulary \X x.term_frequencies \X x.documents :
                    /\ q[1].term = s
                    /\ q[1].id = q[2].term_id
                    /\ q[2].doc_id = q[3].id
                    /\ q[3].word_count > 0
                    /\ q[1].document_frequency > 0} }

\* SQLiteIndexV2.SearchTFIDF (sqlite_index_v2.go:189-245); a nil result
\* is <<>>
V2Search(x, term) ==
    IF term = "" \/ x.N = 0 THEN <<>>
    ELSE IF IsStop(ToLower(term)) THEN <<>>
    ELSE SortHits(V2Hits(x, stem(ToLower(term))))

\* the statements of an Add call that can fail
V1FailPoints(ws) ==
    {FailAt("url", 0), FailAt("len", 0)}
    \cup {FailAt(k, i) : k \in {"term", "hit"}, i \in {j \in DOMAIN ws : Normalize(ws[j]) # ""}}

V2FailPoints(ord) ==
    {FailAt("doc", 0), FailAt("count", 0), FailAt("commit", 0)}
    \cup {FailAt(k, i) : k \in {"vocab", "freq"}, i \in DOMAIN ord}

\* the Add calls of a run
MaxOldAdds == 2

\* the AddDocument calls that commit around one Search
MaxSnapAdds == 2

\* the length of the log of Run
MaxRunEvents == 4

OldDocs == {"doc1", "doc2"}

OldCall(op, doc, ws, term, fail) ==
    [op |-> op, doc |-> doc, words |-> ws, term |-> term, fail |-> fail]

OldInit ==
    /\ oldMem = OldMemEmpty
    /\ oldV1 = V1Empty
    /\ oldV2 = V2Empty
    /\ oldRet = [mem |-> <<>>, v1 |-> <<>>, v2 |-> <<>>]
    /\ oldCall = OldCall("none", "", <<>>, "", NoFail)
    /\ oldCount = 0
    /\ oldFailed = FALSE

\* Add(doc, ws) on the three, no statement failing
OldAdd(doc, ws) ==
    /\ oldCount < MaxOldAdds
    /\ oldMem' = OldMemAdd(oldMem, doc, ws)
    /\ oldV1' = V1Add(oldV1, doc, ws, NoFail)
    /\ \E ord \in Orders(Seen(ws)) : oldV2' = V2Add(oldV2, doc, ws, ord, NoFail)
    /\ oldCall' = OldCall("add", doc, ws, "", NoFail)
    /\ oldCount' = oldCount + 1
    /\ UNCHANGED <<oldRet, oldFailed>>
    /\ UNCHANGED <<crawlVars, indexVars, buildVars, raceVars, connVars, pageVars>>
    /\ UNCHANGED <<snapVars, runVars>>

\* Add(doc, ws) on the three, a statement of SQLiteIndex failing
OldAddV1Fails(doc, ws) ==
    /\ oldCount < MaxOldAdds
    /\ oldMem' = OldMemAdd(oldMem, doc, ws)
    /\ \E ord \in Orders(Seen(ws)) : oldV2' = V2Add(oldV2, doc, ws, ord, NoFail)
    /\ \E f \in V1FailPoints(ws) :
          /\ oldV1' = V1Add(oldV1, doc, ws, f)
          /\ oldCall' = OldCall("add", doc, ws, "", f)
    /\ oldCount' = oldCount + 1
    /\ oldFailed' = TRUE
    /\ UNCHANGED oldRet
    /\ UNCHANGED <<crawlVars, indexVars, buildVars, raceVars, connVars, pageVars>>
    /\ UNCHANGED <<snapVars, runVars>>

\* Add(doc, ws) on the three, a statement of SQLiteIndexV2 failing
OldAddV2Fails(doc, ws) ==
    /\ oldCount < MaxOldAdds
    /\ oldMem' = OldMemAdd(oldMem, doc, ws)
    /\ oldV1' = V1Add(oldV1, doc, ws, NoFail)
    /\ \E ord \in Orders(Seen(ws)) :
          \E f \in V2FailPoints(ord) :
              /\ oldV2' = V2Add(oldV2, doc, ws, ord, f)
              /\ oldCall' = OldCall("add", doc, ws, "", f)
    /\ oldCount' = oldCount + 1
    /\ oldFailed' = TRUE
    /\ UNCHANGED oldRet
    /\ UNCHANGED <<crawlVars, indexVars, buildVars, raceVars, connVars, pageVars>>
    /\ UNCHANGED <<snapVars, runVars>>

\* SearchTFIDF(term) on the three
OldSearch(term) ==
    /\ oldRet' = [mem |-> OldMemSearch(oldMem, term),
                  v1  |-> V1Search(oldV1, term),
                  v2  |-> V2Search(oldV2, term)]
    /\ oldCall' = OldCall("search", "", <<>>, term, NoFail)
    /\ UNCHANGED <<oldMem, oldV1, oldV2, oldCount, oldFailed>>
    /\ UNCHANGED <<crawlVars, indexVars, buildVars, raceVars, connVars, pageVars>>
    /\ UNCHANGED <<snapVars, runVars>>

OldNext ==
    \/ \E doc \in OldDocs, ws \in WordLists : OldAdd(doc, ws)
    \/ \E doc \in OldDocs, ws \in WordLists : OldAddV1Fails(doc, ws)
    \/ \E doc \in OldDocs, ws \in WordLists : OldAddV2Fails(doc, ws)
    \/ \E term \in Terms : OldSearch(term)

\* ------------------------------------------------------------------------
\* SQLiteIndexer.Search (part_000:321-397) while AddDocument calls commit.
\* Search runs its three queries on idx.db, outside any transaction: each
\* takes the connection and gives it back, so whole AddDocument
\* transactions (part_000:243-316) can run between two of them.
\* ------------------------------------------------------------------------
SnapTerms == {"", "the", "whale", "Whales", "ship"}

SnapInit ==
    /\ qpc = "idle"
    /\ qterm = ""
    /\ qN = 0
    /\ qDf = 0
    /\ qRet = <<>>
    /\ qAdds = 0

\* a whole AddDocument transaction commits
SnapAdd(url, ws) ==
    /\ qAdds < MaxSnapAdds
    /\ SqlAddDocument(url, ws)
    /\ qAdds' = qAdds + 1
    /\ UNCHANGED <<qpc, qterm, qN, qDf, qRet>>
    /\ UNCHANGED <<tf, df, docLen, N, lastCall, memRet, sqlRet, added, addCount, repeated>>
    /\ UNCHANGED <<crawlVars, buildVars, raceVars, connVars, pageVars, oldVars, runVars>>

\* part_000:321-330  the call, the empty term and the stop word
SnapCall(term) ==
    /\ qpc = "idle"
    /\ qterm' = term
    /\ qpc' = IF term = "" \/ IsStop(ToLower(term)) THEN "done" ELSE "count"
    /\ UNCHANGED <<qN, qDf, qRet, qAdds>>
    /\ UNCHANGED indexVars
    /\ UNCHANGED <<crawlVars, buildVars, raceVars, connVars, pageVars, oldVars, runVars>>

\* part_000:332-341  SELECT COUNT(*) FROM urls
SnapCount ==
    /\ qpc = "count"
    /\ qN' = Cardinality(urls)
    /\ qpc' = IF Cardinality(urls) = 0 THEN "done" ELSE "df"
    /\ UNCHANGED <<qterm, qDf, qRet, qAdds>>
    /\ UNCHANGED indexVars
    /\ UNCHANGED <<crawlVars, buildVars, raceVars, connVars, pageVars, oldVars, runVars>>

\* part_000:343-352  SELECT COUNT(*) FROM hits h JOIN words w ...
SnapDf ==
    /\ qpc = "df"
    /\ qDf' = SqlDf(stem(ToLower(qterm)))
    /\ qpc' = IF SqlDf(stem(ToLower(qterm))) = 0 THEN "done" ELSE "rows"
    /\ UNCHANGED <<qterm, qN, qRet, qAdds>>
    /\ UNCHANGED indexVars
    /\ UNCHANGED <<crawlVars, buildVars, raceVars, connVars, pageVars, oldVars, runVars>>

\* part_000:354-396  idf from totalDocs and df as read, the rows as they
\* are now
SnapRows ==
    /\ qpc = "rows"
    /\ qRet' = SortHits({ Hit(r.name, Mul(Ratio(r.count, r.total), IdfArg(qN, qDf)))
                            : r \in {x \in SqlRows(stem(ToLower(qterm))) : x.total > 0} })
    /\ qpc' = "done"
    /\ UNCHANGED <<qterm, qN, qDf, qAdds>>
    /\ UNCHANGED indexVars
    /\ UNCHANGED <<crawlVars, buildVars, raceVars, connVars, pageVars, oldVars, runVars>>

SnapNext ==
    \/ \E url \in OldDocs, ws \in WordLists : SnapAdd(url, ws)
    \/ \E term \in SnapTerms : SnapCall(term)
    \/ SnapCount
    \/ SnapDf
    \/ SnapRows

\* no Search overlaps AddDocument calls
SnapIdle == SnapInit

\* ------------------------------------------------------------------------
\* Run (src/server.go:105-151).  The GETs of Crawl and of
\* BuildIndexFromURLList go to localhost:8080; who answers depends on who
\* listens there at that moment.
\* ------------------------------------------------------------------------
\* who answers a GET of http://localhost:8080/...
Answer == IF listening THEN "get:self" ELSE IF ext THEN "get:other" ELSE "get:refused"

RunInit ==
    /\ rph = "start"
    /\ listening = FALSE
    /\ ext \in BOOLEAN
    /\ rlog = <<>>

\* server.go:106-125  the indexer is made; an unknown mode and a failing
\* NewSQLiteIndexer end in log.Fatalf
RunIndexer(mode, ok) ==
    /\ rph = "start"
    /\ rph' = IF mode \in {"inmem", "sqlite"} /\ (mode = "inmem" \/ ok) THEN "crawl" ELSE "fatal"
    /\ UNCHANGED <<listening, ext, rlog>>
    /\ UNCHANGED <<crawlVars, indexVars, buildVars, raceVars, connVars, pageVars, oldVars, snapVars>>

\* server.go:133  a Download call of Crawl
RunCrawlGet ==
    /\ rph = "crawl"
    /\ Len(rlog) < MaxRunEvents
    /\ rlog' = Append(rlog, Answer)
    /\ UNCHANGED <<rph, listening, ext>>
    /\ UNCHANGED <<crawlVars, indexVars, buildVars, raceVars, connVars, pageVars, oldVars, snapVars>>

\* server.go:133-136  Crawl returns; its start URL parses, so err is nil
RunCrawlReturn ==
    /\ rph = "crawl"
    /\ rph' = "build"
    /\ UNCHANGED <<listening, ext, rlog>>
    /\ UNCHANGED <<crawlVars, indexVars, buildVars, raceVars, connVars, pageVars, oldVars, snapVars>>

\* server.go:138  BuildIndexFromURLList: a URL is downloaded and added
RunBuildAdd ==
    /\ rph = "build"
    /\ Len(rlog) + 1 < MaxRunEvents
    /\ Answer # "get:refused"
    /\ rlog' = rlog \o <<Answer, "add">>
    /\ UNCHANGED <<rph, listening, ext>>
    /\ UNCHANGED <<crawlVars, indexVars, buildVars, raceVars, connVars, pageVars, oldVars, snapVars>>

\* server.go:138  BuildIndexFromURLList: a Download fails, the URL is
\* passed over
RunBuildSkip ==
    /\ rph = "build"
    /\ Len(rlog) < MaxRunEvents
    /\ Answer = "get:refused"
    /\ rlog' = Append(rlog, Answer)
    /\ UNCHANGED <<rph, listening, ext>>
    /\ UNCHANGED <<crawlVars, indexVars, buildVars, raceVars, connVars, pageVars, oldVars, snapVars>>

\* variant of RunListen: the server is started in a goroutine before the
\* crawl
RunListenEarly ==
    /\ rph = "crawl"
    /\ ~listening
    /\ ~ext
    /\ listening' = TRUE
    /\ UNCHANGED <<rph, ext, rlog>>
    /\ UNCHANGED <<crawlVars, indexVars, buildVars, raceVars, connVars, pageVars, oldVars, snapVars>>

\* server.go:138-150  BuildIndexFromURLList returned nil; NewMux, then
\* http.ListenAndServe binds the free port
RunListen ==
    /\ rph = "build"
    /\ ~ext
    /\ listening' = TRUE
    /\ rph' = "serving"
    /\ UNCHANGED <<ext, rlog>>
    /\ UNCHANGED <<crawlVars, indexVars, buildVars, raceVars, connVars, pageVars, oldVars, snapVars>>

\* server.go:150  the port is taken: ListenAndServe returns the error and
\* log.Fatal exits
RunListenFails ==
    /\ rph = "build"
    /\ ext
    /\ rph' = "fatal"
    /\ UNCHANGED <<listening, ext, rlog>>
    /\ UNCHANGED <<crawlVars, indexVars, buildVars, raceVars, connVars, pageVars, oldVars, snapVars>>

\* server.go:89-98  the /search handler calls indexer.Search
RunServeSearch ==
    /\ listening
    /\ Len(rlog) < MaxRunEvents
    /\ rlog' = Append(rlog, "search")
    /\ UNCHANGED <<rph, listening, ext>>
    /\ UNCHANGED <<crawlVars, indexVars, buildVars, raceVars, connVars, pageVars, oldVars, snapVars>>

\* another process starts or stops serving :8080; it cannot start while
\* the server of Run holds the port
EnvFlip ==
    /\ ~listening
    /\ rph \in {"start", "crawl", "build"}
    /\ ext' = ~ext
    /\ UNCHANGED <<rph, listening, rlog>>
    /\ UNCHANGED <<crawlVars, indexVars, buildVars, raceVars, connVars, pageVars, oldVars, snapVars>>

RunNext ==
    \/ \E mode \in {"inmem", "sqlite", "other"}, ok \in BOOLEAN : RunIndexer(mode, ok)
    \/ RunCrawlGet
    \/ RunCrawlReturn
    \/ RunBuildAdd
    \/ RunBuildSkip
    \/ RunListen
    \/ RunListenFails
    \/ RunServeSearch
    \/ EnvFlip

\* Run is not running
RunIdle ==
    /\ rph = "idle"
    /\ listening = FALSE
    /\ ext = FALSE
    /\ rlog = <<>>

\* the parts added last are not running
LateIdle == OldInit /\ SnapIdle /\ RunIdle

\* nothing but the part under study runs
RestIdle == RaceIdle /\ ConnIdle /\ PageIdle /\ LateIdle

\* a crawl, the indexers untouched
InitCrawl == CrawlInit /\ IndexInit /\ BuildIdle /\ RestIdle

SpecCrawl == InitCrawl /\ [][CrawlNext]_vars

\* calls on the indexers, no crawl running
InitIndex == CrawlIdle /\ IndexInit /\ BuildIdle /\ RestIdle

SpecIndex == InitIndex /\ [][IndexNext]_vars

\* an indexing run on empty indexers, statements of the database failing
InitBuild == CrawlIdle /\ IndexInit /\ BuildInit /\ RestIdle

SpecBuild == InitBuild /\ [][BuildNext]_vars

\* a crawl whose loop keeps running: Crawl is sequential code, every
\* Download call returns, so a step that can be taken is taken
SpecCrawlFair == InitCrawl /\ [][CrawlNext]_vars /\ WF_vars(CrawlNext)

\* two goroutines call AddDocument of one empty InMemIndexer
InitRace ==
    CrawlIdle /\ IndexInit /\ BuildIdle /\ RaceInit /\ ConnIdle /\ PageIdle /\ LateIdle

SpecRace == InitRace /\ [][RaceNext]_vars

\* two goroutines call AddDocument of one empty SQLiteIndexer
InitConn ==
    CrawlIdle /\ IndexInit /\ BuildIdle /\ RaceIdle /\ ConnInit /\ PageIdle /\ LateIdle

SpecConn == InitConn /\ [][ConnNext]_vars

\* one call of Download, Extract or CleanHref
InitPage ==
    CrawlIdle /\ IndexInit /\ BuildIdle /\ RaceIdle /\ ConnIdle /\ PageInit /\ LateIdle

SpecPage == InitPage /\ [][PageNext]_vars

\* Add and SearchTFIDF calls on the three indexes of project02, one call
\* at a time
InitOld ==
    /\ CrawlIdle /\ IndexInit /\ BuildIdle /\ RaceIdle /\ ConnIdle /\ PageIdle
    /\ OldInit /\ SnapIdle /\ RunIdle

SpecOld == InitOld /\ [][OldNext]_vars

\* one Search of a SQLiteIndexer while AddDocument calls commit
InitSnap ==
    /\ CrawlIdle /\ IndexInit /\ BuildIdle /\ RaceIdle /\ ConnIdle /\ PageIdle
    /\ OldInit /\ SnapInit /\ RunIdle

SpecSnap == InitSnap /\ [][SnapNext]_vars

\* one run of Run
InitRun ==
    /\ CrawlIdle /\ IndexInit /\ BuildIdle /\ RaceIdle /\ ConnIdle /\ PageIdle
    /\ OldInit /\ SnapIdle /\ RunInit

SpecRun == InitRun /\ [][RunNext]_vars

\* ========================================================================
\* Claims about Crawl (checked under SpecCrawl)
\* ========================================================================
SchemeHost(u) == <<ParseURL(u).scheme, ParseURL(u).host>>

\* the cleaned hrefs of a served page, in document order
CleanedHrefs(u) ==
    [i \in DOMAIN ExtractHrefs(site[u]) |-> CleanHref(u, ExtractHrefs(site[u])[i])]

\* C1: visit-once - each URL string appears at most once in the sequence
\* Crawl returns, for every link graph, failure pattern and maxPages.
C1_VisitOnce ==
    \A i, j \in DOMAIN order : order[i] = order[j] => i = j

\* a finished crawl of three or more pages in which some URL was put on the
\* queue twice and some download failed
C1_Witness ==
    /\ pc = "done"
    /\ Len(order) >= 3
    /\ failed # {}
    /\ \E i, j \in DOMAIN enqLog : i # j /\ enqLog[i] = enqLog[j]

\* C2: host-boundary containment - every URL emitted, and every URL handed
\* to Download, has the scheme and the host of the start URL.
C2_HostBoundary ==
    /\ \A i \in DOMAIN order : SchemeHost(order[i]) = SchemeHost(start)
    /\ \A i \in DOMAIN downloaded : SchemeHost(downloaded[i]) = SchemeHost(start)

\* a finished crawl that expanded a page holding a link to another host or
\* scheme
C2_Witness ==
    /\ pc = "done"
    /\ Len(order) >= 2
    /\ \E i \in DOMAIN order :
          /\ order[i] \in DOMAIN site
          /\ order[i] \notin failed
          /\ \E k \in DOMAIN CleanedHrefs(order[i]) :
                /\ CleanedHrefs(order[i])[k] # <<>>
                /\ SchemeHost(CleanedHrefs(order[i])[k]) # SchemeHost(start)

\* the crawl keeps breadth-first discovery order
BFSOrder ==
    /\ order # <<>> => order[1] = start
    /\ downloaded = order
    /\ \A i, j \in DOMAIN order :
          i < j => /\ IndexOf(enqLog, order[i]) > 0
                   /\ IndexOf(enqLog, order[i]) < IndexOf(enqLog, order[j])

\* new is exactly the cleaned hrefs of page cur that were enqueued, in
\* document order
InDocumentOrder(cur, new) ==
    /\ queue' = Tail(queue) \o new
    /\ new = SelectSeq(CleanedHrefs(cur), LAMBDA x : x \in Range(new))

\* the links of an expanded page go on the queue in document order
DocumentOrder ==
    Len(order') > Len(order) /\ order'[Len(order')] \notin failed' =>
        InDocumentOrder(order'[Len(order')], SubSeq(enqLog', Len(enqLog) + 1, Len(enqLog')))

\* the site of TestCrawl, crawled with maxPages = 4
ScenarioOrder ==
    (pc = "done" /\ start = Root /\ max = 4 /\ site[Root] = ScenarioRoot /\ Root \notin failed)
        => order = <<Root, PageD1, PageD2, PageD3>>

\* C3: output is in breadth-first discovery order - start first, pages
\* expanded in output order, hrefs of a page enqueued in document order, a
\* URL first enqueued earlier emitted earlier; root -> /d1 /d2 /d3 + off-host
\* with maxPages = 4 yields exactly [start, /d1, /d2, /d3].
C3_BreadthFirst ==
    /\ [](BFSOrder /\ ScenarioOrder)
    /\ [][DocumentOrder]_vars

\* the scenario crawl has finished
C3_Witness ==
    /\ pc = "done"
    /\ max = 4
    /\ site[Root] = ScenarioRoot
    /\ order = <<Root, PageD1, PageD2, PageD3>>

\* ------------------------------------------------------------------------
\* Crawl: the page bound and the error returns
\* ------------------------------------------------------------------------
\* number of Download calls made for URL u
Downloads(u) == Cardinality({i \in DOMAIN downloaded : downloaded[i] = u})

\* C15: Crawl never emits more than maxPages URLs - for maxPages >= 1 the
\* sequence a crawl returns has between 1 and maxPages URLs, and Download is
\* called exactly once for every emitted URL and for no other URL.
C15_PageBound ==
    /\ max >= 1 => Len(order) <= max
    /\ (pc = "done" /\ max >= 1 /\ crawlErr = "nil") => Len(order) >= 1
    /\ \A i \in DOMAIN order : Downloads(order[i]) = 1
    /\ Range(downloaded) \subseteq Range(order)

\* a crawl stopped by maxPages = 2 with URLs left on the queue, one of them
\* never visited
C15_Witness ==
    /\ pc = "done"
    /\ max = 2
    /\ Len(order) = 2
    /\ \E i \in DOMAIN queue : queue[i] \notin visited

\* C16: with maxPages <= 0 Crawl returns an empty sequence and no error,
\* for any start string, an unparseable one included, and downloads nothing.
C16_NonPositiveMax ==
    (pc = "done" /\ max <= 0) =>
        /\ order = <<>>
        /\ crawlErr = "nil"
        /\ downloaded = <<>>
        /\ enqLog = <<>>

\* Crawl has returned for maxPages = 0 and a start that does not parse
C16_Witness ==
    /\ pc = "done"
    /\ max = 0
    /\ start = BadStart

\* C17: with maxPages >= 1 and a start string that cannot be parsed as a
\* URL, Crawl returns an error at once: no URL is emitted or enqueued and
\* nothing is downloaded.
C17_UnparseableStart ==
    (max >= 1 /\ start = BadStart) =>
        /\ pc \in {"call", "done"}
        /\ pc = "done" => crawlErr = "parse"
        /\ order = <<>>
        /\ downloaded = <<>>
        /\ enqLog = <<>>

\* Crawl has returned the parse error for maxPages = 3
C17_Witness ==
    /\ pc = "done"
    /\ max = 3
    /\ start = BadStart
    /\ crawlErr = "parse"

\* the step is a Download that fails
IsFailedDownload ==
    Len(order') > Len(order) /\ order'[Len(order')] \in failed'

\* a failed download emits the URL, enqueues nothing and leaves the rest of
\* the queue to the loop; no step enqueues a URL whose download failed
FailureSkipsExpansion ==
    /\ IsFailedDownload =>
          /\ order' = Append(order, Head(queue))
          /\ queue' = Tail(queue)
          /\ enqLog' = enqLog
          /\ pc' = "loop"
    /\ \A i \in (Len(enqLog) + 1)..Len(enqLog') : enqLog'[i] \notin failed'

\* every failed URL is in the output and was downloaded once; the crawl
\* returns no error and ends only on an empty queue or at maxPages
FailuresKept ==
    /\ failed \subseteq Range(order)
    /\ \A u \in failed : Downloads(u) = 1
    /\ failed # {} => crawlErr = "nil"
    /\ (pc = "done" /\ failed # {}) => queue = <<>> \/ Len(order) >= max

\* C18: a download failure never aborts a crawl - the URL whose download
\* fails is still in the output, none of its links is enqueued, it is not
\* enqueued or downloaded again, the rest of the frontier is processed and
\* Crawl returns no error.
C18_FailureContinues ==
    /\ []FailuresKept
    /\ [][FailureSkipsExpansion]_vars

\* a finished crawl: the download of a served page with links failed, a
\* later page linking to it was expanded after it
C18_Witness ==
    /\ pc = "done"
    /\ \E i, j \in DOMAIN order :
          /\ i < j
          /\ order[i] \in failed
          /\ order[i] \in DOMAIN site
          /\ ExtractHrefs(site[order[i]]) # <<>>
          /\ order[j] \in DOMAIN site
          /\ order[j] \notin failed
          /\ order[i] \in Range(CleanedHrefs(order[j]))

\* ========================================================================
\* Claims about the two indexers (checked under SpecIndex)
\* ========================================================================
Stems == {"whale", "ship", "sea", "the", "and"}

\* what the index of each backend holds, in the terms of the data model:
\* N, the documents, docLen, the posting counts, the document frequencies
MemPosting(u, s) ==
    IF s \in DOMAIN tf THEN Lookup(tf[s], u) ELSE 0

MemView ==
    [n      |-> N,
     docs   |-> DOMAIN docLen,
     docLen |-> [u \in Range(DocNames) |-> Lookup(docLen, u)],
     post   |-> [u \in Range(DocNames), s \in Stems |-> MemPosting(u, s)],
     df     |-> [s \in Stems |-> Lookup(df, s)]]

SqlHitsOf(u) ==
    {h \in hits : \E r \in urls : r.id = h.url_id /\ r.name = u}

SqlPosting(u, s) ==
    SumCounts({h \in SqlHitsOf(u) : \E w \in words : w.id = h.word_id /\ w.word = s})

SqlView ==
    [n      |-> Cardinality(urls),
     docs   |-> {r.name : r \in urls},
     docLen |-> [u \in Range(DocNames) |-> SumCounts(SqlHitsOf(u))],
     post   |-> [u \in Range(DocNames), s \in Stems |-> SqlPosting(u, s)],
     df     |-> [s \in Stems |-> SqlDf(s)]]

\* the step is an AddDocument call
IsAdd == lastCall'.op = "add" /\ addCount' = addCount + 1

\* the step leaves both indexes as they were and both calls succeed
NoOpAdd ==
    /\ MemView' = MemView
    /\ SqlView' = SqlView
    /\ memRet'.err = "nil"
    /\ sqlRet'.err = "nil"

\* C4: idempotent add - AddDocument(u, w) called right after
\* AddDocument(u, w) leaves N, docLen(u), the postings and the document
\* frequencies of both backends as the first call left them, and succeeds.
C4_IdempotentAdd ==
    [][(IsAdd /\ lastCall' = lastCall) => NoOpAdd]_vars

\* a second AddDocument(u, w) in a row, w holding two distinct stems
C4_Witness ==
    /\ lastCall.op = "add"
    /\ repeated
    /\ Cardinality(Seen(lastCall.words)) = 2

\* C5: a document is immutable once added - AddDocument(u, w2) after a
\* successful AddDocument(u, w1), w2 equal to w1 or not, succeeds and leaves
\* N, docLen, the posting counts and the document frequencies unchanged on
\* both backends.
C5_ImmutableOnceAdded ==
    [][(IsAdd /\ lastCall'.url \in DOMAIN added) => NoOpAdd]_vars

\* C6: backend equivalence - after the same sequence of AddDocument calls,
\* Search(term) returns the same hits, scores and order on both backends.
C6_BackendEquivalence ==
    lastCall.op = "search" => sqlRet = memRet

\* ------------------------------------------------------------------------
\* The corpus as the data model defines it, from the documents as they were
\* first added
\* ------------------------------------------------------------------------
\* the stem a raw word of a document counts under, "" when it is a stopword
\* or empty
RefStem(w) ==
    CASE w \in {"whale", "Whales", "whales"} -> "whale"
      [] w \in {"ship", "ships"}             -> "ship"
      [] w = "sea"                           -> "sea"
      [] OTHER                               -> ""

\* occurrences of stem s in the word sequence ws
RefCount(s, ws) == Cardinality({i \in DOMAIN ws : RefStem(ws[i]) = s})

\* tokens of ws surviving stopword and stem filtering
RefDocLen(ws) == Cardinality({i \in DOMAIN ws : RefStem(ws[i]) # ""})

\* documents holding stem s
RefDocs(s) == {u \in DOMAIN added : s # "" /\ RefCount(s, added[u]) > 0}

\* (occurrences / docLen) * ln(N / df) for every document holding stem s
RefHits(s) ==
    { Hit(u, Mul(Ratio(RefCount(s, added[u]), RefDocLen(added[u])),
                 Ratio(Cardinality(DOMAIN added), Cardinality(RefDocs(s)))))
        : u \in RefDocs(s) }

\* the result hs holds exactly the hits of set H
HoldsExactly(hs, H) == Range(hs) = H /\ Len(hs) = Cardinality(H)

\* C7: TF-IDF correctness - with N documents of which df hold the query's
\* stem, Search returns for each of them one hit with score
\* (occurrences / docLen) * ln(N / df), docLen counting surviving tokens.
C7_TfIdfScores ==
    (lastCall.op = "search" /\ RefDocs(RefStem(lastCall.term)) # {}) =>
        /\ HoldsExactly(memRet.hits, RefHits(RefStem(lastCall.term)))
        /\ HoldsExactly(sqlRet.hits, RefHits(RefStem(lastCall.term)))

\* a sorts strictly before b: higher score, or equal score and smaller URL
StrictlyBefore(a, b) ==
    \/ ScoreGT(a.Score, b.Score)
    \/ ~ScoreGT(b.Score, a.Score) /\ StrLess(a.URL, b.URL)

\* hs is strictly ordered, holds no URL twice, and lessHit decides every
\* pair of distinct hits one way and no hit against itself
Ranked(hs) ==
    /\ \A i, j \in DOMAIN hs : i < j => StrictlyBefore(hs[i], hs[j])
    /\ \A i, j \in DOMAIN hs : hs[i].URL = hs[j].URL => i = j
    /\ \A i, j \in DOMAIN hs : i # j => (lessHit(hs[i], hs[j]) # lessHit(hs[j], hs[i]))
    /\ \A i \in DOMAIN hs : ~lessHit(hs[i], hs[i])

\* C8: deterministic ranking - every Search result is strictly ordered by
\* score descending, ties by URL ascending; lessHit is a strict total order
\* on the hits of a result, no URL occurring in two of them.
C8_DeterministicRanking ==
    lastCall.op = "search" => Ranked(memRet.hits) /\ Ranked(sqlRet.hits)

\* a result of two or more hits whose first two scores tie
C8_Witness ==
    /\ lastCall.op = "search"
    /\ Len(memRet.hits) >= 2
    /\ Len(sqlRet.hits) >= 2
    /\ ~ScoreNE(memRet.hits[1].Score, memRet.hits[2].Score)
    /\ ~ScoreNE(sqlRet.hits[1].Score, sqlRet.hits[2].Score)

\* the stem a query term is looked up under
QueryStem(term) == RefStem(term)

\* the term is empty, nothing was added, or the term is a stopword
TrivialQuery ==
    \/ lastCall.term = ""
    \/ DOMAIN added = {}
    \/ lastCall.term \in {"the", "The"}

\* no posting of the backend is under stem s
MemNoPosting(s) == \A u \in Range(DocNames) : MemPosting(u, s) = 0

SqlNoPosting(s) == \A u \in Range(DocNames) : SqlPosting(u, s) = 0

\* C9: Search returns an empty result and no error on both backends when
\* the term is empty, no document was added, the lower-cased term is a
\* stopword ("the", "The"), or the stemmed term has no posting.
C9_EmptyResults ==
    lastCall.op = "search" =>
        /\ (TrivialQuery \/ MemNoPosting(QueryStem(lastCall.term))) => memRet = Ret(<<>>, "nil")
        /\ (TrivialQuery \/ SqlNoPosting(QueryStem(lastCall.term))) => sqlRet = Ret(<<>>, "nil")

\* "The" searched in a corpus one of whose documents holds "the"
C9_Witness ==
    /\ lastCall.op = "search"
    /\ lastCall.term = "The"
    /\ \E u \in DOMAIN added : "the" \in Range(added[u])
    /\ memRet.hits = <<>>
    /\ sqlRet.hits = <<>>

\* the index holds "whale whale ship and the" as its only document, added
\* by the only AddDocument call so far
ScenarioIndexed ==
    /\ addCount = 1
    /\ \E u \in Range(DocNames) : added = (u :> ScenarioWords)

\* rt is one hit, for the only document, with a score above zero
OnePositiveHit(rt) ==
    /\ rt.err = "nil"
    /\ Len(rt.hits) = 1
    /\ rt.hits[1].URL \in DOMAIN added
    /\ ScoreGT(rt.hits[1].Score, ZeroScore)

\* rt is one hit, for the only document, with score (2/3) * ln(1/1) = 0
OneZeroHit(rt) ==
    /\ rt.err = "nil"
    /\ Len(rt.hits) = 1
    /\ rt.hits[1].URL \in DOMAIN added
    /\ rt.hits[1].Score = ZeroScore

\* C10 as stated: Search("the") is empty and Search("whale") is one hit for
\* the document with a strictly positive score.
C10_PositiveScore ==
    (ScenarioIndexed /\ lastCall.op = "search") =>
        /\ lastCall.term = "the" => memRet.hits = <<>> /\ sqlRet.hits = <<>>
        /\ lastCall.term = "whale" => OnePositiveHit(memRet) /\ OnePositiveHit(sqlRet)

\* C10 amended: after indexing "whale whale ship and the" as the only
\* document, Search("the") is empty and Search("whale") returns exactly one
\* hit, for that document, with score (2/3) * ln(1/1) = 0.
C10_ZeroScore ==
    (ScenarioIndexed /\ lastCall.op = "search") =>
        /\ lastCall.term = "the" => memRet.hits = <<>> /\ sqlRet.hits = <<>>
        /\ lastCall.term = "whale" => OneZeroHit(memRet) /\ OneZeroHit(sqlRet)

\* "whale" searched in the index of the scenario
C10_Witness ==
    /\ ScenarioIndexed
    /\ lastCall.op = "search"
    /\ lastCall.term = "whale"
    /\ Len(memRet.hits) = 1
    /\ Len(sqlRet.hits) = 1

\* the documents a view holds a posting of stem s for
DocsPosting(view, s) == {u \in Range(DocNames) : view.post[u, s] > 0}

\* N is the number of documents, each df the number of documents posted
CorpusCounts(view) ==
    /\ view.n = Cardinality(DOMAIN added)
    /\ view.n = Cardinality(view.docs)
    /\ \A s \in Stems : view.df[s] = Cardinality(DocsPosting(view, s))

\* C11: corpus invariant - after any sequence of AddDocument calls, on
\* either backend N equals the number of distinct URLs added, and the
\* document frequency Search uses for a term equals the number of
\* documents whose posting count for the term is above 0.
C11_CorpusInvariant ==
    CorpusCounts(MemView) /\ CorpusCounts(SqlView)

\* two documents hold a common stem, and a URL was added a second time
\* with other words
C11_Witness ==
    /\ Cardinality(DOMAIN added) >= 2
    /\ \E s \in Stems : MemView.df[s] >= 2 /\ SqlView.df[s] >= 2
    /\ lastCall.op = "add"
    /\ lastCall.url \in DOMAIN added
    /\ added[lastCall.url] # lastCall.words

\* the sum of the posting counts of document u in a view
RECURSIVE SumPost(_, _, _)
SumPost(view, u, S) ==
    IF S = {} THEN 0 ELSE view.post[u, Pick(S)] + SumPost(view, u, S \ {Pick(S)})

\* docLen of every added document is the number of its surviving words and
\* the sum of its posting counts; nothing is posted under a stopword
DocLenCounts(view) ==
    /\ \A u \in DOMAIN added :
          /\ view.docLen[u] = RefDocLen(added[u])
          /\ view.docLen[u] = SumPost(view, u, Stems)
    /\ \A u \in Range(DocNames) : view.post[u, "the"] = 0 /\ view.post[u, "and"] = 0

\* no row of the words table is the empty string or a stopword
NoStopRows == \A w \in words : w.word \notin {"", "the", "and", "The"}

\* C12: for every document added to either backend, docLen equals the
\* number of its raw words that survive normalization, which equals the sum
\* of its posting counts; stopwords and empty tokens are never counted and
\* never posted.
C12_DocLen ==
    /\ DocLenCounts(MemView)
    /\ DocLenCounts(SqlView)
    /\ DOMAIN tf \cap {"", "the", "and", "The"} = {}
    /\ NoStopRows

\* no count of view a is above its count in view b, and b holds every
\* document and every posting of a
NotDecreased(a, b) ==
    /\ a.n <= b.n
    /\ a.docs \subseteq b.docs
    /\ \A s \in Stems : a.df[s] <= b.df[s]
    /\ \A u \in Range(DocNames) : a.docLen[u] <= b.docLen[u]
    /\ \A u \in Range(DocNames), s \in Stems : a.post[u, s] <= b.post[u, s]

\* C14: term statistics are monotone - over any sequence of AddDocument and
\* Search calls, on either backend N, every document frequency, every
\* docLen and every posting count never decrease, and no document or
\* posting is removed.
C14_Monotone ==
    [][NotDecreased(MemView, MemView') /\ NotDecreased(SqlView, SqlView')]_vars

\* the step is a Search call
IsSearch == lastCall'.op = "search"

\* the step writes nothing to either index
IndexUntouched ==
    /\ UNCHANGED <<tf, df, docLen, N>>
    /\ UNCHANGED <<urls, words, hits>>

\* the last Search returned what a Search of its term returns now
SameAnswer ==
    lastCall.op = "search" =>
        /\ memRet = Ret(MemSearch(lastCall.term), "nil")
        /\ sqlRet = Ret(SqlSearch(lastCall.term), "nil")

\* C20: Search is read-only on both backends - a Search call leaves N, the
\* documents, docLen, the document frequencies and the postings unchanged,
\* so a Search run after it returns what it returns alone.
C20_SearchReadOnly ==
    /\ [][IsSearch => IndexUntouched]_vars
    /\ []SameAnswer

\* a Search with hits on both backends, right after another Search of the
\* same term
C20_Witness ==
    /\ lastCall.op = "search"
    /\ repeated
    /\ memRet.hits # <<>>
    /\ sqlRet.hits # <<>>

\* ========================================================================
\* Claims about failing statements and the indexing run (checked under
\* SpecBuild)
\* ========================================================================
\* the step is an AddDocument call of the SQLiteIndexer that returns an
\* error
IsFailedAdd == lastCall'.op = "add" /\ addCount' = addCount + 1 /\ sqlRet'.err # "nil"

\* C13: AddDocument of the persisted backend is atomic - when a storage
\* statement of SQLiteIndexer.AddDocument fails, after any number of terms
\* were written, the call returns the error and the stored documents,
\* terms and postings are as before the call.
C13_AtomicAdd ==
    [][IsFailedAdd => UNCHANGED <<urls, words, hits>> /\ SqlView' = SqlView]_vars

\* a call failed on a non-empty index after its transaction had written the
\* document, a new term and a posting
C13_Witness ==
    /\ sqlRet.err = "storage"
    /\ urls # {}
    /\ tx.urls # urls
    /\ tx.words # words
    /\ tx.hits # hits

\* C19: backend errors are not swallowed during an indexing run - when
\* AddDocument returned a storage error for some URL while
\* BuildIndexFromURLList ran, BuildIndexFromURLList returns an error.
C19_ErrorsReachCaller ==
    (bpc = "done" /\ addErrs # {}) => buildErr # "nil"

\* ========================================================================
\* Claims about two goroutines in InMemIndexer.AddDocument (checked under
\* SpecRace)
\* ========================================================================
\* the URLs of the calls that returned
RaceDocs == {rarg[p].url : p \in {q \in Procs : rpc[q] = "done"}}

\* no call is inside AddDocument
RaceQuiet == \A p \in Procs : ~Running(p)

\* documents whose indexed words hold stem s, by the stored positions
RaceHolders(s) == {d \in DOMAIN docLen : s \in DOMAIN tf /\ d \in DOMAIN tf[s]}

\* N and every df are the counts of the stored documents
RaceCounted ==
    /\ N = Cardinality(DOMAIN docLen)
    /\ \A s \in DOMAIN df : df[s] = Cardinality(RaceHolders(s))

\* C21: the InMem backend is not safe under unsynchronized writers - two
\* unsynchronized AddDocument calls for the same new URL can both pass the
\* duplicate test and leave N and df counting the document twice; in every
\* serialized execution (no call starts while another is inside
\* AddDocument) N is the number of distinct URLs added and every df is the
\* number of stored documents holding the stem.
C21_SerialCountsDistinct ==
    /\ (RaceQuiet /\ ~overlap) => (DOMAIN docLen = RaceDocs /\ RaceCounted)
    /\ (RaceQuiet /\ ~crashed /\ N > Cardinality(DOMAIN docLen)) =>
            (overlap /\ rarg[1].url = rarg[2].url)

\* both calls for one new URL returned, and N and a df count it twice
C21_Witness ==
    /\ \A p \in Procs : rpc[p] = "done"
    /\ rarg[1].url = rarg[2].url
    /\ overlap
    /\ DOMAIN docLen = {rarg[1].url}
    /\ N = 2
    /\ \E s \in DOMAIN df : df[s] = 2

\* ========================================================================
\* Claims about two goroutines in SQLiteIndexer.AddDocument (checked under
\* SpecConn)
\* ========================================================================
\* the calls that committed
Committed == {p \in Procs : spc[p] = "done"}

\* the tables after the committed calls ran alone, one after the other, in
\* some order
SerialOutcomes ==
    IF Committed = {} THEN {NoTables}
    ELSE {TxRun(IF Committed = {p} THEN NoTables ELSE TxRun(NoTables, sarg[Other(p)]), sarg[p]) :
              p \in Committed}

\* the statements of one call are not interleaved with another call's
StmtsInBlocks ==
    \A i, j, k \in DOMAIN stmts : (i < j /\ j < k /\ stmts[i] = stmts[k]) => stmts[j] = stmts[i]

\* C22: on the persisted backend concurrent AddDocument transactions run
\* one at a time over the single open connection - at most one transaction
\* is open, the statements of two calls never interleave, each call
\* commits entirely or not at all, and the stored tables always equal
\* those of the committed calls run serially in some order.
C22_SerialTransactions ==
    /\ Cardinality({p \in Procs : spc[p] = "tx"}) <= 1
    /\ StmtsInBlocks
    /\ Tables(urls, words, hits) \in SerialOutcomes

\* both calls ended after executing statements: one committed a document
\* with terms, the other failed and was rolled back
C22_Witness ==
    /\ \E p \in Procs : spc[p] = "done" /\ spc[Other(p)] = "failed"
    /\ \A p \in Procs : \E i \in DOMAIN stmts : stmts[i] = p
    /\ Len(stmts) >= 5
    /\ hits # {}

\* ========================================================================
\* Claims about one call of Extract, Download or CleanHref (checked under
\* SpecPage)
\* ========================================================================
\* the tags of the elements whose subtree Extract leaves out
Excluded == {"script", "style", "SCRIPT"}

\* the nodes outside every script and style subtree, in document order
RECURSIVE Shown(_, _)
Shown(nodes, hidden) ==
    IF nodes = <<>> THEN <<>>
    ELSE (IF hidden \/ Head(nodes).tag \in Excluded THEN <<>> ELSE <<Head(nodes)>>)
         \o Shown(Head(nodes).kids, hidden \/ Head(nodes).tag \in Excluded)
         \o Shown(Tail(nodes), hidden)

\* the nodes inside some script or style subtree
RECURSIVE Hidden(_, _)
Hidden(nodes, hidden) ==
    IF nodes = <<>> THEN <<>>
    ELSE (IF hidden \/ Head(nodes).tag \in Excluded THEN <<Head(nodes)>> ELSE <<>>)
         \o Hidden(Head(nodes).kids, hidden \/ Head(nodes).tag \in Excluded)
         \o Hidden(Tail(nodes), hidden)

RECURSIVE WordsOf(_)
WordsOf(nodes) ==
    IF nodes = <<>> THEN <<>> ELSE NodeWords(Head(nodes)) \o WordsOf(Tail(nodes))

RECURSIVE HrefsOf(_)
HrefsOf(nodes) ==
    IF nodes = <<>> THEN <<>> ELSE OwnHref(Head(nodes), 0) \o HrefsOf(Tail(nodes))

ExtractDone == pfn = "Extract" /\ pdone

\* C23: Extract emits no token and no href from a node inside a script or
\* style subtree, at any nesting depth: its words and hrefs are those of
\* the nodes outside every such subtree, which includes the text and the
\* anchors that follow an excluded subtree (nested ones too), and the skip
\* depth is 0 again when the walk is over.
C23_ExcludedSubtrees ==
    ExtractDone =>
        /\ pout.words = WordsOf(Shown(pin, FALSE))
        /\ pout.hrefs = HrefsOf(Shown(pin, FALSE))
        /\ pout.skipDepth = 0

\* a script or style nested in another holds a word or an anchor, more
\* text or anchors follow the inner and the outer subtree, and Extract
\* emitted what follows the outer one only
C23_Witness ==
    /\ ExtractDone
    /\ Len(pin) = 3
    /\ pin[1].tag \in Excluded
    /\ Len(pin[1].kids) = 2
    /\ pin[1].kids[1].tag \in Excluded
    /\ WordsOf(Hidden(pin, FALSE)) \o HrefsOf(Hidden(pin, FALSE)) # <<>>
    /\ pout.words = <<"ship">>
    /\ pout.hrefs = <<<<"/", "d3">>>>

\* the value of the href attribute of every anchor among nodes, as written
RECURSIVE AnchorValues(_)
AnchorValues(nodes) ==
    IF nodes = <<>> THEN <<>>
    ELSE (IF Head(nodes).tag \in {"a", "A"} /\ Head(nodes).href # NoAttr
          THEN <<Head(nodes).href>> ELSE <<>>)
         \o AnchorValues(Tail(nodes))

\* C24: Extract returns the href attribute value of every anchor outside
\* script and style, verbatim - no value altered, none omitted - in
\* document order, and nothing else contributes an href.
C24_HrefsVerbatim ==
    ExtractDone => pout.hrefs = AnchorValues(Shown(pin, FALSE))

CleanDone == pfn = "CleanHref" /\ pdone

\* the href without its leading and trailing blanks
Stripped(h) ==
    IF \A i \in DOMAIN h : h[i] = " " THEN <<>>
    ELSE SubSeq(h, CHOOSE i \in DOMAIN h : h[i] # " " /\ \A j \in 1..(i - 1) : h[j] = " ",
                   CHOOSE i \in DOMAIN h : h[i] # " " /\ \A j \in (i + 1)..Len(h) : h[j] = " ")

\* the hrefs the contract rejects: empty, a bare fragment, javascript: and
\* data: in any case
Rejected(h) ==
    \/ Stripped(h) = <<>>
    \/ Stripped(h)[1] \in {"#", "javascript:", "JavaScript:", "data:", "DATA:"}

\* a URL string with a scheme and a host
IsAbsolute(u) ==
    /\ Len(u) >= 3
    /\ u[1] \in {"http:", "https:"}
    /\ u[2] = "//"
    /\ u[3] \notin {"/", "//", ":", "#"}

\* the base is parsed by url.Parse without error
Parseable(base) == base = <<>> \/ Head(base) # ":"

BeforeFragment(h) == IF "#" \in Range(h) THEN SubSeq(h, 1, IndexOf(h, "#") - 1) ELSE h

\* C26: a non-empty result of CleanHref carries no fragment, so hrefs that
\* differ only in '#fragment' resolve to the same URL; and
\* CleanHref("http://example.com/base/", "c.html#sec") =
\* "http://example.com/base/c.html".
C26_FragmentFree ==
    CleanDone =>
        /\ "#" \notin Range(pout)
        /\ \A h \in Hrefs :
              (BeforeFragment(h) = BeforeFragment(pin.href) /\ BeforeFragment(h) # <<>>)
                  => CleanHref(pin.base, h) = pout
        /\ pin = [base |-> ExampleBase, href |-> <<"c.html", "#", "sec">>]
              => pout = ExampleBase \o <<"c.html">>

DownloadDone == pfn = "Download" /\ pdone

\* the request was answered with a success status and the body arrived
Succeeds(r) == r.net = "ok" /\ r.status \in 200..299 /\ r.read = "ok"

\* C27: Download returns the body when the response status is a success
\* status (2xx) and an error for every non-2xx status and every network
\* failure; it never returns both a body and an error.
C27_BodyOrError ==
    DownloadDone =>
        /\ Succeeds(pin) => pout = [body |-> pin.body, err |-> "nil"]
        /\ ~Succeeds(pin) => pout.err # "nil"
        /\ pout.err # "nil" => pout.body = NoBody

\* ========================================================================
\* Claims about the frontier of Crawl (checked under SpecCrawl and
\* SpecCrawlFair)
\* ========================================================================
\* the URLs the step appended to the queue
Enqueued == SubSeq(enqLog', Len(enqLog) + 1, Len(enqLog'))

\* the step downloaded the head of the queue and enqueued its links
IsExpandStep == pc = "loop" /\ Len(order') > Len(order) /\ Head(queue) \notin failed'

\* C28 as stated: Crawl enqueues only unseen URLs - no URL occurs more
\* than once in the frontier queue and no already-visited URL is in the
\* frontier.
C28_FrontierUnseen ==
    pc \in {"loop", "done"} =>
        /\ \A i, j \in DOMAIN queue : queue[i] = queue[j] => i = j
        /\ \A i \in DOMAIN queue : queue[i] \notin visited

\* C28 amended: Crawl enqueues only URLs that are not visited at the
\* moment they are enqueued (the page being expanded counts as visited);
\* a URL linked again before it is visited is in the frontier more than
\* once and is skipped when popped, so no URL is processed twice.
C28_EnqueuedUnvisited ==
    /\ [][\A i \in DOMAIN Enqueued : Enqueued[i] \notin visited']_vars
    /\ [](\A i, j \in DOMAIN order : order[i] = order[j] => i = j)

\* the frontier holds a URL twice and a URL that was visited meanwhile,
\* and more than the start URL was enqueued
C28_Witness ==
    /\ pc = "loop"
    /\ \E i, j \in DOMAIN queue : i < j /\ queue[i] = queue[j]
    /\ \E i \in DOMAIN queue : queue[i] \in visited
    /\ Len(enqLog) > 2

\* C29: every href is resolved with the URL of the page it was found on
\* as base, never the start URL - the URLs a page appends to the queue
\* are the hrefs of that page cleaned against that page's URL, kept when
\* they are on the host of the start URL and not visited; the start URL
\* serves the same-host test only.
C29_BaseIsCurrentPage ==
    [][IsExpandStep =>
          Range(Enqueued) =
              { u \in {CleanHref(Head(queue), h) : h \in Range(ExtractHrefs(site[Head(queue)]))} :
                    /\ u # <<>>
                    /\ HasPrefix(u, HostBase(ParseURL(start)))
                    /\ u \notin visited' }]_vars

\* a page other than the start page held the relative href "d3": the URL
\* enqueued is the href below that page, not below the start URL
C29_Witness ==
    /\ start = Root
    /\ PageD1 \in Range(order) \ failed
    /\ Anchor(<<"d3">>) \in Range(site[PageD1])
    /\ (PageD1 \o <<"/", "d3">>) \in Range(enqLog)
    /\ CleanHref(start, <<"d3">>) = PageD3
    /\ PageD3 \notin Range(enqLog)

\* C30: Crawl terminates for any link graph - cycles and self-links
\* included - after at most maxPages downloads.
C30_Terminates ==
    /\ <>(pc = "done")
    /\ [](Len(downloaded) <= IF max > 0 THEN max ELSE 0)

\* a crawl of a site with a self-link and a cycle returned below the page
\* bound, every link followed
C30_Witness ==
    /\ pc = "done"
    /\ start = Root
    /\ Anchor(<<"/">>) \in Range(site[Root])
    /\ Anchor(<<"/">>) \in Range(site[PageD3])
    /\ Len(order) < max
    /\ queue = <<>>
    /\ PageD3 \in Range(order) \ failed

\* ========================================================================
\* Claims about the fetches of BuildIndexFromURLList (checked under
\* SpecBuild)
\* ========================================================================
\* the URLs of a log of Download calls
LogURLs(log) == [i \in DOMAIN log |-> log[i].url]

\* the URLs of the calls of the log that returned a page
RECURSIVE Fetched(_)
Fetched(log) ==
    IF log = <<>> THEN <<>>
    ELSE (IF Head(log).ok THEN <<Head(log).url>> ELSE <<>>) \o Fetched(Tail(log))

\* the step is a Download of the run that failed
IsFailedFetch == Len(fetchLog') > Len(fetchLog) /\ ~fetchLog'[Len(fetchLog')].ok

\* C31: BuildIndexFromURLList is best-effort over fetches - a URL whose
\* download fails adds no document and does not stop the run; every URL of
\* the list is downloaded, in list order, and the URLs handed to
\* AddDocument are those whose download succeeded, in list order; each URL
\* is a document of the index at most once.
C31_BestEffortFetch ==
    /\ [][IsFailedFetch =>
              /\ UNCHANGED <<tf, df, docLen, N, urls, words, hits, addLog>>
              /\ bpc' = "loop"]_vars
    /\ [](bpc \in {"loop", "done"} =>
              /\ LogURLs(fetchLog) \o todo = blist
              /\ addLog = Fetched(fetchLog)
              /\ DOMAIN docLen = Range(addLog)
              /\ N = Cardinality(Range(addLog))
              /\ Cardinality(urls) = Cardinality({r.name : r \in urls})
              /\ {r.name : r \in urls} \subseteq Range(addLog))
    /\ [](bpc = "done" => Len(fetchLog) = Len(blist))

\* the run over a list naming a URL twice returned: the first download
\* failed, the two after it succeeded and were added in list order
C31_Witness ==
    /\ bpc = "done"
    /\ blist = <<"doc2", "doc1", "doc2">>
    /\ fetchLog = <<[url |-> "doc2", ok |-> FALSE], [url |-> "doc1", ok |-> TRUE],
                    [url |-> "doc2", ok |-> TRUE]>>
    /\ addLog = <<"doc1", "doc2">>
    /\ DOMAIN docLen = {"doc1", "doc2"}
    /\ N = 2

\* ========================================================================
\* Claims about the origin of the crawled URLs (checked under SpecCrawl)
\* ========================================================================
\* page u was downloaded and holds an href that CleanHref turns into v
LinksTo(u, v) ==
    /\ u \notin failed
    /\ u \in DOMAIN site
    /\ \E h \in Range(ExtractHrefs(site[u])) : CleanHref(u, h) = v

\* C34: every URL in the Crawl output other than the start URL was
\* obtained by CleanHref from an href of a URL that appears earlier in the
\* output and whose download succeeded; the first URL of the output is
\* the start URL.
C34_LinkedFromFetched ==
    pc \in {"loop", "done"} =>
        \A i \in DOMAIN order :
            IF i = 1 THEN order[i] = start
            ELSE \E j \in 1..(i - 1) : LinksTo(order[j], order[i])

\* a crawl returned three URLs or more, one of them a page that failed to
\* download and that links to a page no other page links to
C34_Witness ==
    /\ pc = "done"
    /\ Len(order) >= 3
    /\ \E u \in failed \cap DOMAIN site :
          \E h \in Range(ExtractHrefs(site[u])) :
              /\ CleanHref(u, h) \notin Range(order)
              /\ HasPrefix(CleanHref(u, h), hostBase)
    /\ Len(order) < max

\* ========================================================================
\* Claims about the bounds of df, docLen and the scores (checked under
\* SpecIndex)
\* ========================================================================
\* the score tf * ln(arg) is >= 0, and is 0
ScoreNonNeg(sc) == sc.arg.num >= sc.arg.den /\ sc.tf.num >= 0

ScoreIsZero(sc) == sc.arg.num = sc.arg.den \/ sc.tf.num = 0

\* df and docLen of the InMemIndexer are within their bounds
MemBounds ==
    /\ \A s \in DOMAIN df : 1 <= df[s] /\ df[s] <= N
    /\ \A s \in DOMAIN tf : \A d \in DOMAIN tf[s] : tf[s][d] >= 1 /\ docLen[d] >= 1

\* the same of the SQLiteIndexer, for every word with a hits row
SqlBounds ==
    /\ \A w \in words : SqlDf(w.word) <= Cardinality(urls)
    /\ \A h \in hits : h.count >= 1 /\ \E w \in words : w.id = h.word_id /\ SqlDf(w.word) >= 1
    /\ \A r \in urls : (\E h \in hits : h.url_id = r.id) => SumCounts({h \in hits : h.url_id = r.id}) >= 1

\* the hits of a Search for a stem with document frequency d among n
\* documents
HitsInBounds(hs, d, n) ==
    /\ Len(hs) = d
    /\ \A i \in DOMAIN hs : ScoreNonNeg(hs[i].Score) /\ (ScoreIsZero(hs[i].Score) <=> d = n)

\* the last call was a Search of a term that is no stop word
SearchedStem == lastCall.op = "search" /\ lastCall.term # "" /\ ~IsStop(ToLower(lastCall.term))

\* C35: after any sequence of serialized AddDocument calls on either
\* backend, every term with a posting has 1 <= df <= N and every document
\* with a posting has docLen >= 1, so Search skips no document for a zero
\* docLen and returns exactly df hits, every score is >= 0, and a score is
\* 0 exactly when the stem occurs in every document.
C35_BoundsAndScores ==
    /\ MemBounds
    /\ SqlBounds
    /\ SearchedStem =>
          /\ HitsInBounds(memRet.hits, Lookup(df, stem(ToLower(lastCall.term))), N)
          /\ HitsInBounds(sqlRet.hits, SqlDf(stem(ToLower(lastCall.term))), Cardinality(urls))

\* a Search among three documents returned two hits with scores above 0
\* on both backends
C35_Witness ==
    /\ SearchedStem
    /\ N = 3
    /\ Cardinality(urls) = 3
    /\ Len(memRet.hits) = 2
    /\ Len(sqlRet.hits) = 2
    /\ ~ScoreIsZero(memRet.hits[1].Score)
    /\ ~ScoreIsZero(sqlRet.hits[2].Score)

\* ========================================================================
\* Claims about the Indexer implementations of project02 (checked under
\* SpecOld)
\* ========================================================================
\* C32: the three Indexer implementations of the older interface behave
\* identically - after every sequence of Add calls in which no storage
\* statement failed, documents with stopwords included, SearchTFIDF
\* returns the same hits with the same scores in the same order on
\* InMemIndex, SQLiteIndex and SQLiteIndexV2.
C32_OldIndexesAgree ==
    (oldCall.op = "search" /\ ~oldFailed) =>
        /\ oldRet.v1 = oldRet.mem
        /\ oldRet.v2 = oldRet.mem

\* InMemIndex and SQLiteIndex return the same
OldMemAndV1Agree ==
    (oldCall.op = "search" /\ ~oldFailed) => oldRet.v1 = oldRet.mem

\* the postings a complete Add of the words ws stores for its document
FullPostings(ws) == {[term |-> s, count |-> WordCount(ws)[s]] : s \in Seen(ws)}

\* the postings SQLiteIndex and SQLiteIndexV2 hold for document doc
V1Postings(x, doc) ==
    { [term |-> p[3].word, count |-> p[2].count]
        : p \in {q \in x.urls \X x.hits \X x.terms :
                    q[1].url = doc /\ q[2].url_id = q[1].id /\ q[2].term_id = q[3].id} }

V2Postings(x, doc) ==
    { [term |-> p[3].term, count |-> p[2].frequency]
        : p \in {q \in x.documents \X x.term_frequencies \X x.vocabulary :
                    q[1].url = doc /\ q[2].doc_id = q[1].id /\ q[2].term_id = q[3].id} }

\* the step is an Add call
IsOldAdd == oldCount' = oldCount + 1

\* C33: in SQLiteIndex and SQLiteIndexV2 the cached counter N equals the
\* number of stored document rows after every Add call, Add calls in
\* which a storage statement fails included, and an Add leaves the
\* postings of its document as they were or complete, never partial.
C33_CachedNCountsRows ==
    /\ [](oldV1.N = Cardinality(oldV1.urls))
    /\ [](oldV2.N = Cardinality(oldV2.documents))
    /\ [][IsOldAdd =>
              /\ V1Postings(oldV1', oldCall'.doc)
                    \in {V1Postings(oldV1, oldCall'.doc), FullPostings(oldCall'.words)}
              /\ V2Postings(oldV2', oldCall'.doc)
                    \in {V2Postings(oldV2, oldCall'.doc), FullPostings(oldCall'.words)}]_vars

\* ========================================================================
\* Claims about a Search that overlaps AddDocument calls (checked under
\* SpecSnap)
\* ========================================================================
\* C36: a SQLiteIndexer.Search that overlaps AddDocument calls computes
\* the document total, the document frequency and the postings from one
\* committed state, so df <= N holds inside one Search and every returned
\* score is >= 0.
C36_SearchOneSnapshot ==
    /\ qpc \in {"rows", "done"} => qDf <= qN
    /\ qpc = "done" => \A i \in DOMAIN qRet : ScoreNonNeg(qRet[i].Score)

\* ========================================================================
\* Claims about Run (checked under SpecRun)
\* ========================================================================
\* no AddDocument call follows a served /search request in the log
NoAddAfterSearch ==
    \A i, j \in DOMAIN rlog : (rlog[i] = "search" /\ rlog[j] = "add") => j < i

\* C37: in Run, crawling and index building are over before the HTTP
\* server starts listening - no AddDocument is executed after the first
\* /search request is served, and no GET of the crawl or of the index
\* build is answered by the server Run itself starts.
C37_IndexBeforeServe ==
    /\ listening => rph = "serving"
    /\ NoAddAfterSearch
    /\ "get:self" \notin Range(rlog)

\* Run crawled and indexed pages another server answered, then served a
\* /search request
C37_Witness ==
    /\ rph = "serving"
    /\ listening
    /\ rlog = <<"get:other", "get:other", "add", "search">>

====
